---- MODULE Spec2Model ----
(***************************************************************************)
(* doc_rag: per-tenant retrieval-augmented question answering.             *)
(*                                                                         *)
(* The module models                                                       *)
(*   - the shared vector index and PineconeService (upsert_chunks,         *)
(*     query_similar),                                                     *)
(*   - RAGService.query, one action per step of the method,                *)
(*   - ChatService.send_message over the relational store, with the        *)
(*     transaction of the request's database session (flush, commit,       *)
(*     rollback) made explicit,                                            *)
(*   - ChatService.get_sessions, get_messages, delete_session and          *)
(*     update_title,                                                       *)
(*   - ChatService.generate_title and the two text functions under it,     *)
(*   - DocumentProcessor.process_document, one action per step.            *)
(*                                                                         *)
(* The specifications share the variables and the actions:                 *)
(*   SpecRetrieval  ingestion into the index and direct calls of query;    *)
(*   SpecUpsert     upsert_chunks alone, over all its arguments;           *)
(*   SpecChat       send_message requests served one at a time over a      *)
(*                  fixed, populated index;                                *)
(*   SpecTitle      send_message and update_title while the database       *)
(*                  clock runs;                                            *)
(*   SpecSessions   get_sessions, get_messages and delete_session over     *)
(*                  the stores send_message leaves behind;                 *)
(*   SpecTitleText  generate_title and _extract_title_fallback over        *)
(*                  their arguments;                                       *)
(*   SpecIngest     runs of process_document on uploaded documents;        *)
(*   SpecConcurrent two send_message requests on one session, their steps   *)
(*                  interleaved;                                           *)
(*   SpecDocuments  upload_document, the background ingestion it           *)
(*                  schedules and delete_document.                         *)
(***************************************************************************)
EXTENDS Integers, Sequences, FiniteSets, TLC

(***************************************************************************)
(* Bounds of the model.                                                    *)
(***************************************************************************)
\* embeddings are points 0..MaxEmbedding; similarity is closeness
MaxEmbedding == 1
\* reranker scores are 0..MaxRerankScore
MaxRerankScore == 1
\* readings of the wall clock are 0..MaxClock (microseconds)
MaxClock == 2
\* send_message requests accepted in one behaviour
MaxCalls == 2
\* direct calls of query accepted in one behaviour
MaxQueries == 1
\* first messages of the model have at most MaxMessageLen characters
MaxMessageLen == 4
\* enumerated answers of the title provider have at most MaxContentLen characters
MaxContentLen == 2
\* runs of process_document in one behaviour
MaxRuns == 2
\* the longest document fills MaxBatches batches of upsert_chunks
MaxBatches == 3

Tenants == {"A", "B"}
\* Document.user_id of each uploaded document
DocOwner == [d1 |-> "A", d2 |-> "B"]
Docs == DOMAIN DocOwner
\* the embeddings of the chunks text_splitter.split_text and
\* create_embeddings_batch produce for each document's file, in chunk order
\* (both are functions of the file, which never changes after upload)
DocEmbeddings == [d1 |-> <<1, 0, 1>>, d2 |-> <<1, 1>>]
Embeddings == 0..MaxEmbedding
\* values of top_k a caller passes to query; send_message passes 5
TopKs == {1, 2, 5, 21}
\* the request handlers (one database session each); the specifications
\* that serve requests one at a time use the first alone
Procs == {"r1", "r2"}
Serial == {"r1"}

VARIABLES
    index,        \* the vector index: a set of records [id, values, metadata]
    reranker,     \* RAGService._reranker is loaded
    pc,           \* pc[p]: where request p is
    q,            \* q[p]: the frame of RAGService.query run by p
    user_stats,   \* committed UserStats rows: tenant -> [total_queries]
    sessions,     \* committed ChatSession rows: session_id -> row
    messages,     \* committed ChatMessage rows (a set of records)
    txn,          \* txn[p]: what p's database session holds uncommitted
    sm,           \* sm[p]: the frame of ChatService.send_message run by p
    ncalls,       \* send_message requests accepted so far
    upserted,     \* the arguments of the last direct call of upsert_chunks
    db_now,       \* CURRENT_TIMESTAMP(6) of the database server
    ret,          \* the running request of get_sessions, get_messages or
                  \* delete_session, and what it returned
    documents,    \* committed Document rows: document_id -> row
    chunks,       \* committed DocumentChunk rows (a set of records)
    doc_stats,    \* committed UserStats rows: tenant ->
                  \* [total_documents, storage_used]
    ing,          \* the frame of DocumentProcessor.process_document
    ttl           \* the last call of generate_title and its result

newVars == <<db_now, ret, documents, chunks, doc_stats, ing, ttl>>
vars == <<index, reranker, pc, q, user_stats, sessions, messages, txn, sm, ncalls,
          upserted, newVars>>

Min(a, b) == IF a <= b THEN a ELSE b

(***************************************************************************)
(* The vector index (Pinecone, one shared namespace).                      *)
(***************************************************************************)
\* f"{user_id}_{document_id}_chunk_{chunk_index}": ids are UUIDs without "_",
\* so the string determines the triple and the triple stands for it
VectorId(user_id, document_id, chunk_index) == <<user_id, document_id, chunk_index>>

\* mutant: {"user_id": user_id, **chunk["metadata"]}, the chunk's key wins
VectorMetadataChunkWins(chunk_metadata, user_id) == chunk_metadata @@ [user_id |-> user_id]

\* {**chunk["metadata"], "user_id": user_id}: the later key wins
VectorMetadata(chunk_metadata, user_id) == [user_id |-> user_id] @@ chunk_metadata

\* the vectors list upsert_chunks builds, one per chunk, in order
BuildVectors(user_id, chunks_data) ==
    [i \in 1..Len(chunks_data) |->
        [id |-> VectorId(user_id, chunks_data[i].document_id, chunks_data[i].chunk_index),
         values |-> chunks_data[i].embedding,
         metadata |-> VectorMetadata(chunks_data[i].metadata, user_id)]]

\* index.upsert(vectors=batch): a record replaces the one with its id
IndexUpsert(idx, batch) ==
    {r \in idx : \A i \in 1..Len(batch) : batch[i].id # r.id}
        \cup {batch[i] : i \in 1..Len(batch)}

batch_size == 100

NumBatches(n) == (n + batch_size - 1) \div batch_size

\* mutant: a failed batch takes the batches sent before it back out
upsert_chunks_atomic(idx, user_id, chunks_data, failAt) ==
    IF failAt = 0 THEN IndexUpsert(idx, BuildVectors(user_id, chunks_data)) ELSE idx

\* the index after the batches before batch number failAt were sent
\* (failAt = 0: no batch fails)
upsert_chunks(idx, user_id, chunks_data, failAt) ==
    LET vectors == BuildVectors(user_id, chunks_data)
        sent == IF failAt = 0 THEN Len(vectors)
                ELSE Min(Len(vectors), (failAt - 1) * batch_size)
    IN IndexUpsert(idx, SubSeq(vectors, 1, sent))

\* the metadata process_document builds for chunk idx of a document
\* (filename, file_type, chunk_text and created_at ride along unused)
ChunkMetadata(document_id, idx) ==
    [document_id |-> document_id, chunk_index |-> idx]


\* what a chunk's own metadata dictionary may hold under the key user_id
\* when it reaches upsert_chunks: no such key, or some tenant's id
StaleUserIds == {"absent"} \cup Tenants

\* chunks_data for a document: one entry per chunk, in chunk order, as
\* process_document builds it (stale = "absent"), or with a user_id key
\* already in each chunk's metadata
ChunksData(document_id, stale) ==
    [i \in 1..Len(DocEmbeddings[document_id]) |->
        [document_id |-> document_id,
         chunk_index |-> i - 1,
         embedding |-> DocEmbeddings[document_id][i],
         metadata |-> IF stale = "absent" THEN ChunkMetadata(document_id, i - 1)
                      ELSE ChunkMetadata(document_id, i - 1) @@ [user_id |-> stale]]]

\* cosine similarity of a stored vector to the query vector, as closeness
Similarity(query_embedding, values) ==
    MaxEmbedding - (IF query_embedding >= values THEN query_embedding - values
                    ELSE values - query_embedding)

\* a metadata filter is a function key -> [op, val] with op "$eq" or "$in"
MatchesFilter(metadata, filter) ==
    \A k \in DOMAIN filter :
        /\ k \in DOMAIN metadata
        /\ IF filter[k].op = "$eq" THEN metadata[k] = filter[k].val
           ELSE metadata[k] \in filter[k].val

\* the orderings of a set of matches by score, highest first; the index
\* breaks ties as it likes
RECURSIVE RankedSeqs(_)
RankedSeqs(S) ==
    IF S = {} THEN {<<>>}
    ELSE UNION {{<<m>> \o t : t \in RankedSeqs(S \ {m})} :
                m \in {x \in S : \A y \in S : x.score >= y.score}}

\* index.query(vector, top_k, filter, include_metadata): the possible results
IndexQuery(idx, vector, top_k, filter) ==
    LET hits == {[id |-> r.id, score |-> Similarity(vector, r.values),
                  metadata |-> r.metadata] :
                 r \in {x \in idx : MatchesFilter(x.metadata, filter)}}
    IN {SubSeq(s, 1, Min(top_k, Len(s))) : s \in RankedSeqs(hits)}

\* mutant: the document filter replaces the tenant filter
QueryFilterDocumentsOnly(user_id, document_ids) ==
    IF document_ids # {}
    THEN [document_id |-> [op |-> "$in", val |-> document_ids]]
    ELSE [user_id |-> [op |-> "$eq", val |-> user_id]]

\* filter_dict of query_similar; document_ids None and [] are both falsy and
\* are modelled by the empty set
QueryFilter(user_id, document_ids) ==
    IF document_ids # {}
    THEN [user_id |-> [op |-> "$eq", val |-> user_id],
          document_id |-> [op |-> "$in", val |-> document_ids]]
    ELSE [user_id |-> [op |-> "$eq", val |-> user_id]]

query_similar(idx, user_id, query_embedding, top_k, document_ids) ==
    IndexQuery(idx, query_embedding, top_k, QueryFilter(user_id, document_ids))


(***************************************************************************)
(* RAGService.query.                                                       *)
(***************************************************************************)
\* the steps of query that can fail
Steps == {"embedding", "index", "reranker", "chunk_lookup", "llm", "stats"}

NoAnswer == [kind |-> "none", reason |-> "none"]
\* "I couldn't find any relevant information in your documents ..."
NoInformationAnswer == [kind |-> "no_information", reason |-> "none"]
\* f"An error occurred while processing your query: {str(e)}"
ErrorAnswer(reason) == [kind |-> "query_error", reason |-> reason]
\* f"Error generating answer: {str(e)}"
GenerationErrorAnswer(reason) == [kind |-> "generation_error", reason |-> reason]
\* "Error: Groq API client not initialized. ..."
ClientMissingAnswer == [kind |-> "client_not_initialized", reason |-> "none"]
\* the synthesizer's text
LlmAnswer == [kind |-> "llm", reason |-> "none"]

NoResponse == [answer |-> NoAnswer, sources |-> <<>>, confidence |-> 0, reranked |-> FALSE]

\* the frame of a call of query that has not started
IdleQuery ==
    [caller |-> "none", user_id |-> "none", document_ids |-> {}, top_k |-> 0,
     use_reranking |-> FALSE, has_db |-> FALSE,
     query_embedding |-> 0, requested_k |-> 0, found |-> <<>>, matches |-> <<>>,
     reranked |-> FALSE, rerank_scores |-> <<>>, context |-> <<>>, sources |-> <<>>,
     answer |-> NoAnswer, confidence |-> 0,
     rerank_calls |-> 0, llm_calls |-> 0, failed |-> {},
     outcome |-> "none", response |-> NoResponse]

\* search_k, then top_k=min(search_k, 20)
SearchK(top_k, use_reranking, has_reranker) ==
    Min(IF use_reranking /\ has_reranker THEN top_k * 4 ELSE top_k, 20)

\* mutant: the threshold on the number of matches is 2
ShouldRerankFromTwo(use_reranking, has_reranker, n) ==
    use_reranking /\ has_reranker /\ n >= 2

\* use_reranking and RAGService._reranker and len(matches) >= 3
ShouldRerank(use_reranking, has_reranker, n) ==
    use_reranking /\ has_reranker /\ n >= 3

\* mutant: the zero-matches branch is never taken
NoMatchesNever(matches) == FALSE

\* not matches or len(matches) == 0
NoMatches(matches) == Len(matches) = 0

\* matches[:k]
Take(s, k) == SubSeq(s, 1, Min(k, Len(s)))

\* mutant: a sort that is not stable, equal scores come out last first
RECURSIVE SortedPositionsUnstable(_, _)
SortedPositionsUnstable(left, scores) ==
    IF left = {} THEN <<>>
    ELSE LET best == CHOOSE i \in left : \A j \in left \ {i} :
                        \/ scores[i] > scores[j]
                        \/ scores[i] = scores[j] /\ i > j
         IN <<best>> \o SortedPositionsUnstable(left \ {best}, scores)

\* list.sort(key=score, reverse=True) is stable: positions of s ordered by
\* score, highest first, equal scores in their original order
RECURSIVE SortedPositions(_, _)
SortedPositions(left, scores) ==
    IF left = {} THEN <<>>
    ELSE LET best == CHOOSE i \in left : \A j \in left \ {i} :
                        \/ scores[i] > scores[j]
                        \/ scores[i] = scores[j] /\ i < j
         IN <<best>> \o SortedPositions(left \ {best}, scores)

\* _rerank_results when predict returns scores
RerankResults(matches, scores, top_k) ==
    LET order == SortedPositions(1..Len(matches), scores)
    IN Take([i \in 1..Len(matches) |-> matches[order[i]]], top_k)

\* the source entry built for a match
Source(match) ==
    [document_id |-> match.metadata.document_id,
     chunk_index |-> match.metadata.chunk_index,
     score |-> match.score]

RECURSIVE SumScores(_)
SumScores(s) == IF s = <<>> THEN 0 ELSE s[1].score + SumScores(Tail(s))

\* mean score of matches[:3], 0.0 for none, in sixths (an integer for 1, 2
\* and 3 scores)
Confidence(matches) ==
    LET top == Take(matches, 3)
    IN IF top = <<>> THEN 0 ELSE (6 * SumScores(top)) \div Len(top)

\* the dictionary query returns on its main path
Response(frame) ==
    [answer |-> frame.answer, sources |-> frame.sources,
     confidence |-> frame.confidence, reranked |-> frame.reranked]

\* the dictionary of the zero-matches branch
NoInformationResponse ==
    [answer |-> NoInformationAnswer, sources |-> <<>>, confidence |-> 0, reranked |-> FALSE]

\* the dictionary of the except branch
ErrorResponse(reason) ==
    [answer |-> ErrorAnswer(reason), sources |-> <<>>, confidence |-> 0, reranked |-> FALSE]

\* where request p goes on when query has returned or raised
AfterQuery(frame) == IF frame.caller = "send_message" THEN "sm_assistant" ELSE "idle"

\* return of a dictionary to the caller
Returned(frame, response) ==
    [frame EXCEPT !.outcome = "returned", !.response = response]

\* mutant: the handler logs and re-raises, as PineconeService's handlers do
QueryExceptReraise(frame, step) ==
    [frame EXCEPT !.failed = @ \cup {step}, !.outcome = "raised"]

\* query's handler of an exception raised inside its try block
QueryExcept(frame, step) ==
    Returned([frame EXCEPT !.failed = @ \cup {step}], ErrorResponse(step))


(***************************************************************************)
(* The relational store and the database session of a request.             *)
(* txn[p].msgs are ChatMessage rows added in p's open transaction,         *)
(* txn[p].upd the ChatSession rows it has changed; commit makes both       *)
(* durable, rollback drops both.                                           *)
(***************************************************************************)
EmptyTxn == [msgs |-> {}, upd |-> <<>>]

\* the frame of a call of send_message that has not started
IdleSend ==
    [user_id |-> "none", session_id |-> "none", session |-> "none", call |-> 0,
     use_reranking |-> FALSE, document_ids |-> {},
     user_message_time |-> 0, user_message |-> "none", assistant_message |-> "none",
     message_count |-> 0, title |-> "none", expired |-> FALSE,
     reading |-> 0, assistant_message_time |-> 0,
     title_updated |-> FALSE, outcome |-> "none"]

\* Session.commit(): the rows of the open transaction become durable and
\* every loaded object is expired; the server stamps updated_at on each
\* ChatSession row the commit updates (ON UPDATE CURRENT_TIMESTAMP(6))
CommitSessions(rows, t, now) ==
    [s \in DOMAIN t.upd |-> [t.upd[s] EXCEPT !.updated_at = now]] @@ rows
CommitMessages(rows, t) == rows \cup t.msgs

\* what commit or rollback does to the objects send_message holds: a flushed
\* user message is persistent after commit and expunged after rollback, and
\* the session object is expired either way
AfterCommit(frame) ==
    [frame EXCEPT !.expired = TRUE,
                  !.user_message = IF @ = "flushed" THEN "committed" ELSE @]
AfterRollback(frame) ==
    [frame EXCEPT !.expired = TRUE,
                  !.user_message = IF @ = "flushed" THEN "expunged" ELSE @]

(***************************************************************************)
(* Actions of RAGService.query for request p.                              *)
(***************************************************************************)
\* RAGService.__init__ loads the reranker once, when a service is built
\* before a request is served
LoadReranker ==
    /\ \A p \in Procs : pc[p] = "idle"
    /\ ~reranker
    /\ reranker' = TRUE
    /\ UNCHANGED <<index, pc, q, user_stats, sessions, messages, txn, sm, ncalls, upserted, newVars>>

\* the frame of a fresh call
NewQuery(caller, user_id, document_ids, top_k, use_reranking, has_db) ==
    [IdleQuery EXCEPT !.caller = caller, !.user_id = user_id,
                      !.document_ids = document_ids, !.top_k = top_k,
                      !.use_reranking = use_reranking, !.has_db = has_db]

\* a direct call of query
QueryCall(p, user_id, document_ids, top_k, use_reranking, has_db) ==
    /\ pc[p] = "idle"
    /\ user_stats[user_id] < MaxQueries
    /\ q' = [q EXCEPT ![p] = NewQuery("direct", user_id, document_ids, top_k,
                                      use_reranking, has_db)]
    /\ pc' = [pc EXCEPT ![p] = "q_embed"]
    /\ UNCHANGED <<index, reranker, user_stats, sessions, messages, txn, sm, ncalls, upserted, newVars>>

\* create_query_embedding(query_text)
QueryEmbed(p) ==
    /\ pc[p] = "q_embed"
    /\ \/ \E e \in Embeddings :
            /\ q' = [q EXCEPT ![p].query_embedding = e]
            /\ pc' = [pc EXCEPT ![p] = "q_search"]
       \/ /\ q' = [q EXCEPT ![p] = QueryExcept(q[p], "embedding")]
          /\ pc' = [pc EXCEPT ![p] = AfterQuery(q[p])]
    /\ UNCHANGED <<index, reranker, user_stats, sessions, messages, txn, sm, ncalls, upserted, newVars>>

\* query_similar(...), then the zero-matches branch
QuerySearch(p) ==
    /\ pc[p] = "q_search"
    /\ LET k == SearchK(q[p].top_k, q[p].use_reranking, reranker)
           f == [q[p] EXCEPT !.requested_k = k]
       IN \/ \E matches \in query_similar(index, f.user_id, f.query_embedding, k,
                                          f.document_ids) :
               IF NoMatches(matches)
               THEN /\ q' = [q EXCEPT ![p] = Returned(f, NoInformationResponse)]
                    /\ pc' = [pc EXCEPT ![p] = AfterQuery(f)]
               ELSE /\ q' = [q EXCEPT ![p] = [f EXCEPT !.found = matches,
                                                        !.matches = matches]]
                    /\ pc' = [pc EXCEPT ![p] = "q_rank"]
          \/ /\ q' = [q EXCEPT ![p] = QueryExcept(f, "index")]
             /\ pc' = [pc EXCEPT ![p] = AfterQuery(f)]
    /\ UNCHANGED <<index, reranker, user_stats, sessions, messages, txn, sm, ncalls, upserted, newVars>>

\* the reranking branch: _rerank_results scores and sorts, or catches the
\* reranker's exception and keeps matches[:top_k]; query sets reranked after
\* the call either way
QueryRerank(p) ==
    /\ pc[p] = "q_rank"
    /\ ShouldRerank(q[p].use_reranking, reranker, Len(q[p].matches))
    /\ \/ \E scores \in [1..Len(q[p].matches) -> 0..MaxRerankScore] :
            q' = [q EXCEPT ![p].matches = RerankResults(q[p].matches, scores, q[p].top_k),
                           ![p].rerank_scores = scores,
                           ![p].rerank_calls = @ + 1,
                           ![p].reranked = TRUE]
       \/ q' = [q EXCEPT ![p].matches = Take(q[p].matches, q[p].top_k),
                         ![p].rerank_calls = @ + 1,
                         ![p].failed = @ \cup {"reranker"},
                         ![p].reranked = TRUE]
    /\ pc' = [pc EXCEPT ![p] = "q_context"]
    /\ UNCHANGED <<index, reranker, user_stats, sessions, messages, txn, sm, ncalls, upserted, newVars>>

\* the other branch: matches[:top_k]
QueryTruncate(p) ==
    /\ pc[p] = "q_rank"
    /\ ~ShouldRerank(q[p].use_reranking, reranker, Len(q[p].matches))
    /\ q' = [q EXCEPT ![p].matches = Take(q[p].matches, q[p].top_k)]
    /\ pc' = [pc EXCEPT ![p] = "q_context"]
    /\ UNCHANGED <<index, reranker, user_stats, sessions, messages, txn, sm, ncalls, upserted, newVars>>

\* what _get_full_chunk_text finds for one match: the DocumentChunk row, no
\* row, or an exception of the lookup, which it catches; without a database
\* session it does not look
Lookups(has_db) == IF has_db THEN {"row", "missing", "error"} ELSE {"no_db"}

\* the loop over the kept matches: context_parts and sources; a context part
\* is the chunk's full text or its preview, recorded as the chunk it is of
QueryContext(p) ==
    /\ pc[p] = "q_context"
    /\ \E lookup \in [1..Len(q[p].matches) -> Lookups(q[p].has_db)] :
         q' = [q EXCEPT
                 ![p].context = [i \in 1..Len(q[p].matches) |-> q[p].matches[i].id],
                 ![p].sources = [i \in 1..Len(q[p].matches) |-> Source(q[p].matches[i])],
                 ![p].failed = IF \E i \in 1..Len(q[p].matches) : lookup[i] = "error"
                               THEN @ \cup {"chunk_lookup"} ELSE @]
    /\ pc' = [pc EXCEPT ![p] = "q_answer"]
    /\ UNCHANGED <<index, reranker, user_stats, sessions, messages, txn, sm, ncalls, upserted, newVars>>

\* mutant: _generate_answer lets the synthesizer's exception through to
\* query's own handler
QueryAnswerUncaught(p) ==
    /\ pc[p] = "q_answer"
    /\ \/ /\ q' = [q EXCEPT ![p].answer = ClientMissingAnswer,
                            ![p].confidence = Confidence(q[p].matches)]
          /\ pc' = [pc EXCEPT ![p] = "q_stats"]
       \/ /\ q' = [q EXCEPT ![p].answer = LlmAnswer,
                            ![p].llm_calls = @ + 1,
                            ![p].confidence = Confidence(q[p].matches)]
          /\ pc' = [pc EXCEPT ![p] = "q_stats"]
       \/ /\ q' = [q EXCEPT ![p] = QueryExcept([q[p] EXCEPT !.llm_calls = @ + 1], "llm")]
          /\ pc' = [pc EXCEPT ![p] = AfterQuery(q[p])]
    /\ UNCHANGED <<index, reranker, user_stats, sessions, messages, txn, sm, ncalls, upserted, newVars>>

\* _generate_answer: no client, the synthesizer's text, or its exception
\* caught and turned into an answer; then the confidence
QueryAnswer(p) ==
    /\ pc[p] = "q_answer"
    /\ \/ q' = [q EXCEPT ![p].answer = ClientMissingAnswer,
                         ![p].confidence = Confidence(q[p].matches)]
       \/ q' = [q EXCEPT ![p].answer = LlmAnswer,
                         ![p].llm_calls = @ + 1,
                         ![p].confidence = Confidence(q[p].matches)]
       \/ q' = [q EXCEPT ![p].answer = GenerationErrorAnswer("llm"),
                         ![p].llm_calls = @ + 1,
                         ![p].failed = @ \cup {"llm"},
                         ![p].confidence = Confidence(q[p].matches)]
    /\ pc' = [pc EXCEPT ![p] = "q_stats"]
    /\ UNCHANGED <<index, reranker, user_stats, sessions, messages, txn, sm, ncalls, upserted, newVars>>

\* the stats update and the return of the result: with a database session,
\* total_queries += 1 and db.commit(), or db.rollback() when that raises
QueryStats(p) ==
    /\ pc[p] = "q_stats"
    /\ IF ~q[p].has_db
       THEN /\ q' = [q EXCEPT ![p] = Returned(q[p], Response(q[p]))]
            /\ UNCHANGED <<user_stats, sessions, messages, txn, sm>>
       ELSE \/ /\ user_stats' = [user_stats EXCEPT ![q[p].user_id] = @ + 1]
               /\ sessions' = CommitSessions(sessions, txn[p], db_now)
               /\ messages' = CommitMessages(messages, txn[p])
               /\ txn' = [txn EXCEPT ![p] = EmptyTxn]
               /\ sm' = [sm EXCEPT ![p] = AfterCommit(sm[p])]
               /\ q' = [q EXCEPT ![p] = Returned(q[p], Response(q[p]))]
            \/ /\ txn' = [txn EXCEPT ![p] = EmptyTxn]
               /\ sm' = [sm EXCEPT ![p] = AfterRollback(sm[p])]
               /\ q' = [q EXCEPT ![p] = Returned([q[p] EXCEPT !.failed = @ \cup {"stats"}],
                                                 Response(q[p]))]
               /\ UNCHANGED <<user_stats, sessions, messages>>
    /\ pc' = [pc EXCEPT ![p] = AfterQuery(q[p])]
    /\ UNCHANGED <<index, reranker, ncalls, upserted, newVars>>


(***************************************************************************)
(* ChatService.send_message for request p.                                 *)
(***************************************************************************)
None == "None"
\* session ids the store hands out, in the order it hands them out (uuid4:
\* never one in use)
SessionIdSeq == <<"s1", "s2", "s3">>
SessionIds == {SessionIdSeq[i] : i \in 1..Len(SessionIdSeq)}
\* values of the request's session_id: absent, empty, or an id
SessionIdArgs == {None, ""} \cup SessionIds
\* values of the request's document_ids
ChatDocumentIds == {{}, {"d2"}}
\* readings of datetime.utcnow(), a wall clock
Clock == 0..MaxClock

NewSessionId(rows) ==
    SessionIdSeq[CHOOSE i \in 1..Len(SessionIdSeq) :
                    /\ SessionIdSeq[i] \notin DOMAIN rows
                    /\ \A j \in 1..(i - 1) : SessionIdSeq[j] \in DOMAIN rows]

\* mutant: the lookup filters on the session id alone
FindSessionAnyOwner(rows, session_id, user_id) ==
    IF session_id \in DOMAIN rows THEN session_id ELSE None

\* the query of get_or_create_session: the row with this id and this owner
FindSession(rows, session_id, user_id) ==
    IF session_id \in DOMAIN rows /\ rows[session_id].user_id = user_id
    THEN session_id ELSE None

\* Python's truth value of the session_id argument
Truthy(session_id) == session_id # None /\ session_id # ""

\* mutant: only a strictly earlier second reading is replaced
AssistantTimeStrict(user_message_time, reading) ==
    IF reading < user_message_time THEN user_message_time + 1 ELSE reading

\* assistant_message_time from user_message_time and the second reading
AssistantTime(user_message_time, reading) ==
    IF reading <= user_message_time THEN user_message_time + 1 ELSE reading

\* a ChatMessage row; message_id is a fresh uuid, here the request's number
\* and the role (content, sources, reranked and response_time_ms ride along)
Message(call, session_id, user_id, role, created_at) ==
    [message_id |-> <<call, role>>, session_id |-> session_id, user_id |-> user_id,
     role |-> role, created_at |-> created_at]

\* the request starts: ChatService() is built and get_or_create_session runs
SendMessage(p, user_id, session_id, use_reranking, document_ids) ==
    /\ pc[p] = "idle"
    /\ ncalls < MaxCalls
    /\ ncalls' = ncalls + 1
    /\ LET frame == [IdleSend EXCEPT !.user_id = user_id, !.session_id = session_id,
                                     !.use_reranking = use_reranking,
                                     !.document_ids = document_ids,
                                     !.call = ncalls + 1]
       IN IF Truthy(session_id)
          THEN LET found == FindSession(sessions, session_id, user_id)
               IN IF found = None
                  \* raise ValueError(f"Session {session_id} not found")
                  THEN /\ sm' = [sm EXCEPT ![p] = [frame EXCEPT !.outcome = "ValueError"]]
                       /\ pc' = pc
                       /\ UNCHANGED sessions
                  ELSE /\ sm' = [sm EXCEPT ![p] =
                                   [frame EXCEPT !.session = found,
                                                 !.message_count = sessions[found].message_count,
                                                 !.title = sessions[found].title]]
                       /\ pc' = [pc EXCEPT ![p] = "sm_user_message"]
                       /\ UNCHANGED sessions
          \* create_session: add, commit, refresh
          ELSE LET new == NewSessionId(sessions)
               IN /\ sessions' = (new :> [user_id |-> user_id, title |-> "New Chat",
                                          message_count |-> 0,
                                          updated_at |-> db_now]) @@ sessions
                  /\ sm' = [sm EXCEPT ![p] = [frame EXCEPT !.session = new,
                                                           !.message_count = 0,
                                                           !.title = "New Chat"]]
                  /\ pc' = [pc EXCEPT ![p] = "sm_user_message"]
    /\ q' = [q EXCEPT ![p] = IdleQuery]
    /\ UNCHANGED <<index, reranker, user_stats, messages, txn, upserted, newVars>>

\* the user message is added and flushed, and query is called with top_k=5
\* and the request's database session
SendUserMessage(p) ==
    /\ pc[p] = "sm_user_message"
    /\ \E now \in Clock :
         /\ sm' = [sm EXCEPT ![p].user_message_time = now, ![p].user_message = "flushed"]
         /\ txn' = [txn EXCEPT ![p].msgs = @ \cup
                      {Message(sm[p].call, sm[p].session, sm[p].user_id, "user", now)}]
    /\ q' = [q EXCEPT ![p] = NewQuery("send_message", sm[p].user_id, sm[p].document_ids,
                                      5, sm[p].use_reranking, TRUE)]
    /\ pc' = [pc EXCEPT ![p] = "q_embed"]
    /\ UNCHANGED <<index, reranker, user_stats, sessions, messages, ncalls, upserted, newVars>>

\* session.message_count and session.title as the request sees them: the
\* loaded values, or the stored ones once a commit or rollback expired them
SeenSession(frame, rows) ==
    IF frame.expired THEN [message_count |-> rows[frame.session].message_count,
                           title |-> rows[frame.session].title]
    ELSE [message_count |-> frame.message_count, title |-> frame.title]

\* generate_title(message): some title other than the placeholder
GeneratedTitle == "generated"

\* mutant: the title is inferred whenever an exchange has completed
FirstExchangeOrLater(message_count) == message_count >= 2

\* if session.message_count == 2
FirstExchange(message_count) == message_count = 2

\* query has returned: the assistant message is added with its timestamp,
\* message_count grows by 2 and the first exchange gets its title
SendAssistantMessage(p) ==
    /\ pc[p] = "sm_assistant"
    /\ IF q[p].outcome = "raised"
       \* the exception leaves send_message; get_db closes the session
       THEN /\ sm' = [sm EXCEPT ![p].outcome = "error"]
            /\ txn' = [txn EXCEPT ![p] = EmptyTxn]
            /\ pc' = [pc EXCEPT ![p] = "idle"]
       ELSE \E now \in Clock :
            LET seen == SeenSession(sm[p], sessions)
                count == seen.message_count + 2
                first == FirstExchange(count)
                title == IF first THEN GeneratedTitle ELSE seen.title
                at == AssistantTime(sm[p].user_message_time, now)
            IN /\ sm' = [sm EXCEPT ![p].reading = now,
                                   ![p].assistant_message_time = at,
                                   ![p].assistant_message = "added",
                                   ![p].message_count = count,
                                   ![p].title = title,
                                   ![p].expired = FALSE,
                                   ![p].title_updated = first]
               /\ txn' = [txn EXCEPT
                            ![p].msgs = @ \cup {Message(sm[p].call, sm[p].session,
                                                        sm[p].user_id, "assistant", at)},
                            ![p].upd = (sm[p].session :>
                                          [user_id |-> sm[p].user_id, title |-> title,
                                           message_count |-> count,
                                           updated_at |-> sessions[sm[p].session].updated_at])
                                         @@ @]
               /\ pc' = [pc EXCEPT ![p] = "sm_commit"]
    /\ q' = [q EXCEPT ![p] = IdleQuery]
    /\ UNCHANGED <<index, reranker, user_stats, sessions, messages, ncalls, upserted, newVars>>

\* db.commit() and the three refreshes; refresh raises for a user message
\* the session no longer holds
SendCommit(p) ==
    /\ pc[p] = "sm_commit"
    /\ \/ /\ sessions' = CommitSessions(sessions, txn[p], db_now)
          /\ messages' = CommitMessages(messages, txn[p])
          /\ sm' = [sm EXCEPT ![p] =
                      [AfterCommit(sm[p]) EXCEPT
                         !.outcome = IF sm[p].user_message = "expunged"
                                     THEN "error" ELSE "ok"]]
       \* the commit raises; get_db closes the session, which rolls back
       \/ /\ sm' = [sm EXCEPT ![p] = [AfterRollback(sm[p]) EXCEPT !.outcome = "error"]]
          /\ UNCHANGED <<sessions, messages>>
    /\ txn' = [txn EXCEPT ![p] = EmptyTxn]
    /\ pc' = [pc EXCEPT ![p] = "idle"]
    /\ UNCHANGED <<index, reranker, q, user_stats, ncalls, upserted, newVars>>

NoUpsert == [user_id |-> "none", document_id |-> "none", stale |-> "none", failAt |-> 0]

(***************************************************************************)
(* Ingestion into the index.                                               *)
(***************************************************************************)
\* process_document's call upsert_chunks(user_id, chunks_data) for the
\* chunks of document d, whose owner is user_id; failAt is the batch whose
\* upsert raises (0: none)
IngestChunks(d, failAt) ==
    /\ index' = upsert_chunks(index, DocOwner[d], ChunksData(d, "absent"), failAt)
    /\ index' # index
    /\ UNCHANGED <<reranker, pc, q, user_stats, sessions, messages, txn, sm, ncalls,
                   upserted, newVars>>

\* upsert_chunks(user_id, chunks_data) called with any tenant, any document
\* and chunk metadata that may hold a user_id key already
UpsertChunks(user_id, d, stale, failAt) ==
    /\ index' = upsert_chunks(index, user_id, ChunksData(d, stale), failAt)
    /\ upserted' = [user_id |-> user_id, document_id |-> d, stale |-> stale,
                    failAt |-> failAt]
    /\ UNCHANGED <<reranker, pc, q, user_stats, sessions, messages, txn, sm, ncalls,
                   newVars>>

(***************************************************************************)
(* Reading and deleting sessions: get_sessions, get_messages,              *)
(* delete_session.  Timestamps are counts of microseconds; a cursor is the *)
(* text of a timestamp, modelled by what its parser reads in it.           *)
(***************************************************************************)
\* DATETIME(fsp=6): six fractional digits of a second
MicrosPerSecond == 1000000

\* cursor=None, the empty string, and a text that is no ISO timestamp
NoCursor == [kind |-> "None", sec |-> 0, frac |-> -1]
EmptyCursor == [kind |-> "empty", sec |-> 0, frac |-> -1]
JunkCursor == [kind |-> "junk", sec |-> 0, frac |-> -1]

\* datetime.isoformat(): the seconds, and the six-digit fraction unless the
\* microsecond is 0 (frac = -1: no fraction in the text)
IsoFormat(t) ==
    [kind |-> "iso", sec |-> t \div MicrosPerSecond,
     frac |-> IF t % MicrosPerSecond = 0 THEN -1 ELSE t % MicrosPerSecond]

\* mutant: a text that does not parse is read as the epoch
FromIsoFormatLenient(cursor) ==
    IF cursor.kind = "iso"
    THEN [ok |-> TRUE,
          value |-> cursor.sec * MicrosPerSecond + (IF cursor.frac = -1 THEN 0 ELSE cursor.frac)]
    ELSE [ok |-> TRUE, value |-> 0]

\* datetime.fromisoformat(cursor): the timestamp, or ValueError (ok = FALSE)
FromIsoFormat(cursor) ==
    IF cursor.kind = "iso"
    THEN [ok |-> TRUE,
          value |-> cursor.sec * MicrosPerSecond + (IF cursor.frac = -1 THEN 0 ELSE cursor.frac)]
    ELSE [ok |-> FALSE, value |-> 0]

\* if cursor: try: cursor_dt = fromisoformat(cursor) ... except ValueError: pass
\* -- the bound the query filters below, if any
CursorBound(cursor) ==
    IF cursor.kind \in {"None", "empty"}
    THEN [filter |-> FALSE, before |-> 0]
    ELSE LET parsed == FromIsoFormat(cursor)
         IN IF parsed.ok THEN [filter |-> TRUE, before |-> parsed.value]
            ELSE [filter |-> FALSE, before |-> 0]

\* ORDER BY at DESC over a set of records [id, at]: every order the rows
\* may come in (rows of equal at in any order)
RECURSIVE DescSeqs(_)
DescSeqs(S) ==
    IF S = {} THEN {<<>>}
    ELSE UNION {{<<x>> \o rest : rest \in DescSeqs(S \ {x})} :
                   x \in {y \in S : \A z \in S : z.at <= y.at}}

\* messages.reverse()
Reverse(s) == [i \in 1..Len(s) |-> s[Len(s) + 1 - i]]

\* mutant: the page is cut to limit rows but has_more is tested after the cut
PageOfCutFirst(ordered, limit) ==
    LET fetched == Take(ordered, limit)
    IN [rows |-> fetched, has_more |-> Len(fetched) > limit]

\* .limit(limit + 1).all(); has_more = len(rows) > limit; rows[:limit]
PageOf(ordered, limit) ==
    LET fetched == Take(ordered, limit + 1)
        has_more == Len(fetched) > limit
    IN [rows |-> IF has_more THEN Take(fetched, limit) ELSE fetched,
        has_more |-> has_more]

\* get_sessions(user_id, limit, cursor): the results it may return
get_sessions(rows, user_id, limit, cursor) ==
    LET bound == CursorBound(cursor)
        own == {s \in DOMAIN rows : rows[s].user_id = user_id}
        cand == {s \in own : bound.filter => rows[s].updated_at < bound.before}
    IN {LET page == PageOf(ordered, limit)
        IN [items |-> page.rows,
            total |-> Cardinality(own),
            has_more |-> page.has_more,
            cursor |-> IF Len(page.rows) > 0 /\ page.has_more
                       THEN IsoFormat(page.rows[Len(page.rows)].at)
                       ELSE NoCursor] :
        ordered \in DescSeqs({[id |-> s, at |-> rows[s].updated_at] : s \in cand})}

\* get_messages returned None
NotFound == [items |-> <<>>, total |-> -1, has_more |-> FALSE, cursor |-> NoCursor]

\* mutant: the page is returned newest first
get_messages_newest_first(rows, msgs, user_id, session_id, limit, cursor) ==
    IF FindSession(rows, session_id, user_id) = None THEN {NotFound}
    ELSE LET bound == CursorBound(cursor)
             all == {m \in msgs : m.session_id = session_id}
             cand == {m \in all : bound.filter => m.created_at < bound.before}
         IN {LET page == PageOf(ordered, limit)
                 listed == page.rows
             IN [items |-> listed,
                 total |-> Cardinality(all),
                 has_more |-> page.has_more,
                 cursor |-> IF Len(listed) > 0 /\ page.has_more
                            THEN IsoFormat(listed[1].at)
                            ELSE NoCursor] :
             ordered \in DescSeqs({[id |-> m.message_id, at |-> m.created_at] : m \in cand})}

\* get_messages(user_id, session_id, limit, cursor): None when the session
\* is not one of user_id's, else the results it may return
get_messages(rows, msgs, user_id, session_id, limit, cursor) ==
    IF FindSession(rows, session_id, user_id) = None THEN {NotFound}
    ELSE LET bound == CursorBound(cursor)
             all == {m \in msgs : m.session_id = session_id}
             cand == {m \in all : bound.filter => m.created_at < bound.before}
         IN {LET page == PageOf(ordered, limit)
                 listed == Reverse(page.rows)
             IN [items |-> listed,
                 total |-> Cardinality(all),
                 has_more |-> page.has_more,
                 cursor |-> IF Len(listed) > 0 /\ page.has_more
                            THEN IsoFormat(listed[1].at)
                            ELSE NoCursor] :
             ordered \in DescSeqs({[id |-> m.message_id, at |-> m.created_at] : m \in cand})}

\* values of limit (the endpoints accept 1..100) and of cursor
Limits == {1, 2}
CursorArgs == {NoCursor, EmptyCursor, JunkCursor} \cup {IsoFormat(t) : t \in 0..(MaxClock + 1)}

\* the record of a call of the session store
Called(op, user_id, session_id, limit, cursor, pages, ok) ==
    [op |-> op, user_id |-> user_id, session_id |-> session_id, limit |-> limit,
     cursor |-> cursor, pages |-> pages, ok |-> ok]

\* the endpoint sends its response and the request is over; the session
\* store serves the next request
Respond ==
    /\ ret.op # "none"
    /\ ret' = Called("none", "none", None, 0, NoCursor, <<>>, FALSE)
    /\ UNCHANGED <<index, reranker, pc, q, user_stats, sessions, messages, txn, sm, ncalls,
                   upserted, db_now, documents, chunks, doc_stats, ing, ttl>>

\* GET /chat/sessions
GetSessions(user_id, limit, cursor) ==
    /\ ret.op = "none"
    /\ \E result \in get_sessions(sessions, user_id, limit, cursor) :
         ret' = Called("get_sessions", user_id, None, limit, cursor, <<result>>, TRUE)
    /\ UNCHANGED <<index, reranker, pc, q, user_stats, sessions, messages, txn, sm, ncalls,
                   upserted, db_now, documents, chunks, doc_stats, ing, ttl>>

\* the client asks for the next page with the cursor it was handed
GetSessionsNext ==
    /\ ret.op = "get_sessions"
    /\ ret.pages[Len(ret.pages)].cursor # NoCursor
    /\ \E result \in get_sessions(sessions, ret.user_id, ret.limit,
                                  ret.pages[Len(ret.pages)].cursor) :
         ret' = [ret EXCEPT !.pages = Append(@, result)]
    /\ UNCHANGED <<index, reranker, pc, q, user_stats, sessions, messages, txn, sm, ncalls,
                   upserted, db_now, documents, chunks, doc_stats, ing, ttl>>

\* GET /chat/sessions/{session_id}/messages
GetMessages(user_id, session_id, limit, cursor) ==
    /\ ret.op = "none"
    /\ \E result \in get_messages(sessions, messages, user_id, session_id, limit, cursor) :
         ret' = Called("get_messages", user_id, session_id, limit, cursor, <<result>>,
                       result # NotFound)
    /\ UNCHANGED <<index, reranker, pc, q, user_stats, sessions, messages, txn, sm, ncalls,
                   upserted, db_now, documents, chunks, doc_stats, ing, ttl>>

\* the client asks for the older page with the cursor it was handed
GetMessagesNext ==
    /\ ret.op = "get_messages"
    /\ ret.pages[Len(ret.pages)].cursor # NoCursor
    /\ \E result \in get_messages(sessions, messages, ret.user_id, ret.session_id,
                                  ret.limit, ret.pages[Len(ret.pages)].cursor) :
         ret' = [ret EXCEPT !.pages = Append(@, result)]
    /\ UNCHANGED <<index, reranker, pc, q, user_stats, sessions, messages, txn, sm, ncalls,
                   upserted, db_now, documents, chunks, doc_stats, ing, ttl>>

\* mutant: the session is deleted, its messages are left behind
DeleteCascadeNone(msgs, session_id) == msgs

\* ON DELETE CASCADE of chat_messages.session_id
DeleteCascade(msgs, session_id) == {m \in msgs : m.session_id # session_id}

\* delete_session(user_id, session_id)
DeleteSession(user_id, session_id) ==
    /\ ret.op = "none"
    /\ LET found == FindSession(sessions, session_id, user_id)
       IN IF found = None
          THEN /\ ret' = Called("delete_session", user_id, session_id, 0, NoCursor, <<>>, FALSE)
               /\ UNCHANGED <<sessions, messages>>
          ELSE /\ sessions' = [s \in DOMAIN sessions \ {found} |-> sessions[s]]
               /\ messages' = DeleteCascade(messages, found)
               /\ ret' = Called("delete_session", user_id, session_id, 0, NoCursor, <<>>, TRUE)
    /\ UNCHANGED <<index, reranker, pc, q, user_stats, txn, sm, ncalls,
                   upserted, db_now, documents, chunks, doc_stats, ing, ttl>>

\* the title a client sends to update_title
TitleArgs == {"renamed"}

\* update_title(user_id, session_id, title): PUT /chat/sessions/{id}/title
\* of a client that has no other request running; it returns whether the
\* session was found
UpdateTitle(user_id, session_id, title) ==
    /\ \A p \in Procs : pc[p] = "idle"
    /\ LET found == FindSession(sessions, session_id, user_id)
       IN /\ found # None
          /\ sessions[found].title # title
          /\ sessions' = [sessions EXCEPT ![found].title = title,
                                          ![found].updated_at = db_now]
    /\ UNCHANGED <<index, reranker, pc, q, user_stats, messages, txn, sm, ncalls,
                   upserted, db_now, ret, documents, chunks, doc_stats, ing, ttl>>

\* a microsecond passes on the database server
DbTick ==
    /\ db_now < MaxClock
    /\ db_now' = db_now + 1
    /\ UNCHANGED <<index, reranker, pc, q, user_stats, sessions, messages, txn, sm, ncalls,
                   upserted, ret, documents, chunks, doc_stats, ing, ttl>>

\* no call of the session store's operations yet
NoCall == Called("none", "none", None, 0, NoCursor, <<>>, FALSE)
\* no Document row
NoDocuments == <<>>
\* UserStats rows as registration creates them
NoDocStats == [t \in Tenants |-> [total_documents |-> 0, storage_used |-> 0]]
\* process_document is not running
IdleIngest ==
    [pc |-> "idle", document_id |-> "none", user_id |-> "none", run |-> 0,
     started |-> "none", text |-> "none", pending |-> {}, session |-> "active",
     error |-> [step |-> "none", len |-> 0], outcome |-> "none",
     runs |-> [d \in Docs |-> 0], returned |-> [d \in Docs |-> 0],
     nchunks |-> [d \in Docs |-> -1], failed_batch |-> 0,
     tasks |-> [d \in Docs |-> "none"], found |-> FALSE]
\* generate_title has not been called
IdleTitle == [op |-> "none"]

(***************************************************************************)
(* Title text: generate_title, _clean_title, _extract_title_fallback.      *)
(* A text is the sequence of its characters.                               *)
(***************************************************************************)
\* the upper-case form of each lower-case letter
UpperOf ==
    [a |-> "A", b |-> "B", c |-> "C", d |-> "D", e |-> "E", f |-> "F",
     g |-> "G", h |-> "H", i |-> "I", j |-> "J", k |-> "K", l |-> "L",
     m |-> "M", n |-> "N", o |-> "O", p |-> "P", q |-> "Q", r |-> "R",
     s |-> "S", t |-> "T", u |-> "U", v |-> "V", w |-> "W", x |-> "X",
     y |-> "Y", z |-> "Z"]
\* str.upper and str.lower on one character
upper(c) == IF c \in DOMAIN UpperOf THEN UpperOf[c] ELSE c
lower(c) ==
    IF \E l \in DOMAIN UpperOf : UpperOf[l] = c
    THEN CHOOSE l \in DOMAIN UpperOf : UpperOf[l] = c
    ELSE c
\* the characters str.strip() and str.split() take for blanks
Whitespace == {" "}

\* str.lstrip(cs)
LStrip(s, cs) ==
    IF \A i \in 1..Len(s) : s[i] \in cs
    THEN <<>>
    ELSE SubSeq(s, CHOOSE i \in 1..Len(s) :
                       s[i] \notin cs /\ \A j \in 1..(i - 1) : s[j] \in cs,
                Len(s))
RStrip(s, cs) == Reverse(LStrip(Reverse(s), cs))
\* str.strip(cs)
Strip(s, cs) == RStrip(LStrip(s, cs), cs)
\* str.lower
LowerStr(s) == [i \in 1..Len(s) |-> lower(s[i])]
\* x in s
Contains(s, c) == \E i \in 1..Len(s) : s[i] = c
\* s.split(c)[0]
BeforeFirst(s, c) ==
    IF Contains(s, c)
    THEN SubSeq(s, 1, (CHOOSE i \in 1..Len(s) :
                           s[i] = c /\ \A j \in 1..(i - 1) : s[j] # c) - 1)
    ELSE s
\* str.split(): the maximal runs of characters that are not blanks
RECURSIVE Split(_)
Split(s) ==
    LET t == LStrip(s, Whitespace)
        word == BeforeFirst(t, " ")
    IN  IF t = <<>>
        THEN <<>>
        ELSE <<word>> \o Split(SubSeq(t, Len(word) + 1, Len(t)))
\* ' '.join(words)
RECURSIVE Join(_)
Join(words) ==
    IF words = <<>> THEN <<>>
    ELSE IF Len(words) = 1 THEN words[1]
    ELSE words[1] \o <<" ">> \o Join(Tail(words))
\* str.title(): a letter is upper-cased after a character that is not a
\* letter, lower-cased after a letter
TitleCase(s) ==
    LET IsCased(c) == \E l \in DOMAIN UpperOf : c \in {l, UpperOf[l]}
    IN  [i \in 1..Len(s) |->
            IF i = 1 \/ ~IsCased(s[i - 1]) THEN upper(s[i]) ELSE lower(s[i])]
\* re.sub of one character by nothing
RemoveChar(s, c) ==
    LET Other(x) == x # c
    IN  SelectSeq(s, Other)
\* re.sub(r'#+\s*', '', s)

prefixes_to_remove ==
    <<<<"t", "i", "t", "l", "e", ":">>,
      <<"s", "u", "b", "j", "e", "c", "t", ":">>,
      <<"t", "o", "p", "i", "c", ":">>,
      <<"s", "u", "m", "m", "a", "r", "y", ":">>,
      <<"T", "i", "t", "l", "e", ":">>,
      <<"S", "u", "b", "j", "e", "c", "t", ":">>,
      <<"T", "o", "p", "i", "c", ":">>,
      <<"S", "u", "m", "m", "a", "r", "y", ":">>,
      <<"T", "I", "T", "L", "E", ":">>,
      <<"S", "U", "B", "J", "E", "C", "T", ":">>,
      <<"T", "O", "P", "I", "C", ":">>,
      <<"S", "U", "M", "M", "A", "R", "Y", ":">>>>
\* the loop over prefixes_to_remove
RECURSIVE RemovePrefixes(_, _)
RemovePrefixes(title, prefixes) ==
    IF prefixes = <<>> THEN title
    ELSE LET prefix == Head(prefixes)
             StartsWith(s, t) == Len(s) >= Len(t) /\ SubSeq(s, 1, Len(t)) = t
         IN  RemovePrefixes(
                 IF StartsWith(LowerStr(title), LowerStr(prefix))
                 THEN Strip(SubSeq(title, Len(prefix) + 1, Len(title)),
                            Whitespace)
                 ELSE title,
                 Tail(prefixes))

\* the grave accent that marks code in markdown, as one character
Backtick == "GRAVE"
clean_title(title) ==
    IF title = <<>> THEN <<>>
    ELSE LET \* re.sub(r'#+\s*', '', s): a match is a run of '#' and the
             \* blanks that follow it
             RemoveHeaders(s) ==
                 LET Kept(i) ==
                         /\ s[i] # "#"
                         /\ ~(/\ s[i] \in Whitespace
                              /\ \E j \in 1..(i - 1) :
                                     /\ s[j] = "#"
                                     /\ \A k \in (j + 1)..i : s[k] \in Whitespace)
                     kept == SelectSeq([i \in 1..Len(s) |-> i], Kept)
                 IN  [n \in 1..Len(kept) |-> s[kept[n]]]
             unmarked == RemoveChar(RemoveHeaders(
                             RemoveChar(RemoveChar(title, "*"), "_")), Backtick)
             \* title.strip of the quotation marks
             unquoted == Strip(unmarked, {"\"", "'"})
             bare == RemovePrefixes(unquoted, prefixes_to_remove)
             \* re.sub(r'[.!,;:]+$', '', title)
             ended == RStrip(bare, {".", "!", ",", ";", ":"})
             capital == IF ended # <<>>
                        THEN <<upper(Head(ended))>> \o Tail(ended)
                        ELSE ended
         IN  Strip(capital, Whitespace)

question_words ==
    {<<"w", "h", "a", "t">>, <<"h", "o", "w">>, <<"w", "h", "y">>,
     <<"w", "h", "e", "n">>, <<"w", "h", "e", "r", "e">>,
     <<"w", "h", "o">>, <<"w", "h", "i", "c", "h">>, <<"i", "s">>,
     <<"a", "r", "e">>, <<"d", "o">>, <<"d", "o", "e", "s">>,
     <<"c", "a", "n">>, <<"c", "o", "u", "l", "d">>,
     <<"w", "o", "u", "l", "d">>, <<"s", "h", "o", "u", "l", "d">>,
     <<"w", "i", "l", "l">>}
stop_words ==
    {<<"t", "h", "e">>, <<"a">>, <<"a", "n">>, <<"a", "n", "d">>,
     <<"o", "r">>, <<"b", "u", "t">>, <<"i", "n">>, <<"o", "n">>,
     <<"a", "t">>, <<"t", "o">>, <<"f", "o", "r">>, <<"o", "f">>,
     <<"w", "i", "t", "h">>, <<"b", "y">>, <<"f", "r", "o", "m">>,
     <<"a", "s">>, <<"i", "s">>, <<"w", "a", "s">>, <<"a", "r", "e">>,
     <<"w", "e", "r", "e">>, <<"b", "e", "e", "n">>, <<"b", "e">>,
     <<"h", "a", "v", "e">>, <<"h", "a", "s">>, <<"h", "a", "d">>,
     <<"d", "o">>, <<"d", "o", "e", "s">>, <<"d", "i", "d">>,
     <<"w", "i", "l", "l">>, <<"w", "o", "u", "l", "d">>,
     <<"s", "h", "o", "u", "l", "d">>, <<"c", "o", "u", "l", "d">>,
     <<"m", "a", "y">>, <<"m", "i", "g", "h", "t">>,
     <<"m", "u", "s", "t">>, <<"c", "a", "n">>, <<"w", "h", "a", "t">>,
     <<"h", "o", "w">>, <<"w", "h", "y">>, <<"w", "h", "e", "n">>,
     <<"w", "h", "e", "r", "e">>, <<"w", "h", "o">>,
     <<"w", "h", "i", "c", "h">>, <<"t", "h", "i", "s">>,
     <<"t", "h", "a", "t">>, <<"t", "h", "e", "s", "e">>,
     <<"t", "h", "o", "s", "e">>, <<"i">>, <<"m", "e">>, <<"m", "y">>,
     <<"y", "o", "u">>, <<"y", "o", "u", "r">>}

extract_title_fallback(message) ==
    LET clean == Strip(message, Whitespace)
        question == BeforeFirst(clean, "?")
        \* the punctuation w.strip('?.!,;:') removes around a word
        WordPunctuation == {"?", ".", "!", ",", ";", ":"}
        NotQuestionWord(w) == w \notin question_words
        filtered_words == SelectSeq(Split(LowerStr(question)), NotQuestionWord)
        title == TitleCase(Join(Take(filtered_words, 6)))
        words == Take(Split(LowerStr(clean)), 15)
        NotStopWord(w) == Strip(w, WordPunctuation) \notin stop_words
        kept == SelectSeq(words, NotStopWord)
        keywords == [i \in 1..Len(kept) |-> Strip(kept[i], WordPunctuation)]
    IN  IF /\ Contains(Take(clean, 100), "?")
           /\ filtered_words # <<>>
           /\ Len(title) >= 3
        THEN Take(title, 80)
        ELSE IF keywords # <<>>
        THEN Take(TitleCase(Join(Take(keywords, 5))), 80)
        ELSE Take(clean, 50)
             \o (IF Len(clean) > 50 THEN <<".", ".", ".">> ELSE <<>>)

\* what the call of the title provider comes to: there is no client, the
\* call raises, the response has no choices[0].message.content, or the
\* response carries a text
Provider(kind, content) == [kind |-> kind, content |-> content]

\* generate_title that returns the cleaned title unvalidated
generate_title_unvalidated(first_message, groq) ==
    IF groq.kind = "unavailable"
    THEN [raised |-> FALSE, title |-> extract_title_fallback(first_message)]
    ELSE IF groq.kind \in {"raises", "malformed"}
    THEN [raised |-> FALSE, title |-> extract_title_fallback(first_message)]
    ELSE [raised |-> FALSE,
          title |-> Take(clean_title(Strip(groq.content, Whitespace)), 100)]
generate_title(first_message, groq) ==
    IF groq.kind = "unavailable"
    THEN [raised |-> FALSE, title |-> extract_title_fallback(first_message)]
    ELSE IF groq.kind \in {"raises", "malformed"}
    THEN [raised |-> FALSE, title |-> extract_title_fallback(first_message)]
    ELSE LET raw_title == Strip(groq.content, Whitespace)
             cleaned_title == clean_title(raw_title)
         IN  IF cleaned_title # <<>> /\ Len(cleaned_title) >= 3
             THEN [raised |-> FALSE, title |-> Take(cleaned_title, 100)]
             ELSE [raised |-> FALSE,
                   title |-> extract_title_fallback(first_message)]

\* all texts of at most n characters drawn from cs
RECURSIVE Texts(_, _)
Texts(cs, n) ==
    IF n = 0 THEN {<<>>}
    ELSE LET shorter == Texts(cs, n - 1)
         IN  shorter \cup {<<c>> \o t : c \in cs, t \in shorter}
\* the first messages of the model: every text of 1..MaxMessageLen
\* characters of a small alphabet, and a few longer ones
Messages ==
    (Texts({"i", "s", "a", " ", "?"}, MaxMessageLen) \ {<<>>}) \cup
    {<<"W", "h", "a", "t", " ", "i", "s", " ", "m", "a", "c", "h", "i",
       "n", "e", " ", "l", "e", "a", "r", "n", "i", "n", "g", " ", "a",
       "n", "d", " ", "h", "o", "w", " ", "d", "o", "e", "s", " ", "i",
       "t", " ", "w", "o", "r", "k", "?">>,
     <<"C", "a", "n", " ", "y", "o", "u", " ", "t", "e", "l", "l", " ",
       "m", "e", " ", "a", " ", "b", "i", "t", " ", "m", "o", "r", "e",
       " ", "o", "f", " ", "t", "h", "e", " ", "b", "i", "g", " ", "r",
       "e", "d", " ", "f", "o", "x", "?">>,
     <<"b", "i", "g", " ", "r", "e", "d", " ", "f", "o", "x", " ", "r",
       "a", "n", " ", "f", "a", "r", " ", "o", "f", "f", " ", "n", "o",
       "w">>,
     <<"H", "i", "?", " ", "t", "e", "l", "l", " ", "m", "e", " ", "m",
       "o", "r", "e">>}
\* the texts the provider answers with: every text of at most MaxContentLen
\* characters of a small alphabet, a few longer ones, and one longer than
\* the longest title generate_title returns
Contents ==
    Texts({"a", "*", ".", " "}, MaxContentLen) \cup {[i \in 1..101 |-> "a"]} \cup
    {<<"A", "i", " ", "T", "i", "p", "s">>,
     <<"*", "*", "A", "i", " ", "T", "i", "p", "s", "*", "*">>,
     <<"\"", "A", "i", " ", "T", "i", "p", "s", "\"">>,
     <<"T", "i", "t", "l", "e", ":", " ", "A", "i", " ", "T", "i", "p",
       "s">>,
     <<"#", "#", " ", "A", "i", " ", "T", "i", "p", "s">>,
     <<"A", "i", " ", "T", "i", "p", "s", ".">>,
     <<"t", "i", "t", "l", "e", ":">>,
     <<"t", "o", "p", "i", "c", ":", " ", "t", "i", "t", "l", "e", ":",
       " ", "i", "t">>,
     <<Backtick, "l", "s", Backtick>>,
     <<"o", "k">>,
     <<" ", "F", "o", "x", " ", "F", "a", "c", "t", "s", " ">>}
Providers ==
    {Provider(k, <<>>) : k \in {"unavailable", "raises", "malformed"}}
        \cup {Provider("content", c) : c \in Contents}

\* a call of generate_title, as send_message makes on a first exchange
GenerateTitle(first_message, groq) ==
    /\ ttl.op = "none"
    /\ ttl' = [op |-> "generate_title", message |-> first_message,
               groq |-> groq,
               result |-> generate_title(first_message, groq)]
    /\ UNCHANGED <<index, reranker, pc, q, user_stats, sessions, messages, txn, sm, ncalls,
                   upserted, db_now, ret, documents, chunks, doc_stats, ing>>

\* a call of _extract_title_fallback
ExtractTitleFallback(message) ==
    /\ ttl.op = "none"
    /\ ttl' = [op |-> "extract_title_fallback", message |-> message,
               groq |-> Provider("unavailable", <<>>),
               result |-> [raised |-> FALSE,
                           title |-> extract_title_fallback(message)]]
    /\ UNCHANGED <<index, reranker, pc, q, user_stats, sessions, messages, txn, sm, ncalls,
                   upserted, db_now, ret, documents, chunks, doc_stats, ing>>

(***************************************************************************)
(* DocumentProcessor.process_document, one action per step.  The steps     *)
(* share one database session: ing.pending are the DocumentChunk rows      *)
(* added to it and not yet committed.                                      *)
(***************************************************************************)
\* the text of an exception: the step that raised it and its length
Failure(step, len) == [step |-> step, len |-> len]
NoFailure == Failure("none", 0)
\* lengths of the texts of the exceptions the libraries raise
FailureLens == {1, 500, 501}
\* str(e)[:n]
Truncated(e, n) == [e EXCEPT !.len = Min(e.len, n)]
\* the Document row upload_document commits before it schedules
\* process_document (chunk_count -1: NULL; a file's size grows with its text)
UploadedDocument(d) ==
    [user_id |-> DocOwner[d], file_size |-> Len(DocEmbeddings[d]), status |-> "processing",
     error_message |-> NoFailure, chunk_count |-> -1]
\* str(uuid.uuid4()) of chunk idx in a run: a new id each time
ChunkIdReused(run, idx) == <<0, idx>>
ChunkId(run, idx) == <<run, idx>>
\* the DocumentChunk rows a run adds to the session, one per chunk
ChunkRows(user_id, document_id, run, n) ==
    {[chunk_id |-> ChunkId(run, idx), document_id |-> document_id,
      chunk_index |-> idx, pinecone_id |-> VectorId(user_id, document_id, idx)] :
        idx \in 0..(n - 1)}
\* chunks_data as the loop builds it for the n chunks of a document; the
\* embedding of a chunk is drawn from the document's embeddings in turn
SplitChunksData(document_id, n) ==
    [i \in 1..n |->
        [document_id |-> document_id,
         chunk_index |-> i - 1,
         embedding |-> DocEmbeddings[document_id]
                           [((i - 1) % Len(DocEmbeddings[document_id])) + 1],
         metadata |-> ChunkMetadata(document_id, i - 1)]]

\* the step at ing.pc raises e: control goes to the except clause
Raise(e) == [ing EXCEPT !.pc = "except", !.error = e]

\* process_document(document_id, ..., user_id, db) is called for document d
\* of the store, in its own database session
ProcessDocument(d) ==
    /\ ing.pc \in {"idle", "done"}
    /\ ing.run < MaxRuns
    /\ d \in DOMAIN documents
    /\ ing' = [IdleIngest EXCEPT !.pc = "extract", !.document_id = d,
                                 !.user_id = documents[d].user_id,
                                 !.run = ing.run + 1,
                                 !.started = documents[d].status,
                                 !.runs = [ing.runs EXCEPT ![d] = @ + 1],
                                 !.returned = ing.returned,
                                 !.nchunks = ing.nchunks,
                                 !.tasks = ing.tasks]
    /\ UNCHANGED <<index, reranker, pc, q, user_stats, sessions, messages, txn, sm, ncalls,
                   upserted, db_now, ret, documents, chunks, doc_stats, ttl>>

\* upload_document by tenant u: the Document row is committed in status
\* processing under a new id d and process_document_background is scheduled
UploadDocument(d, u) ==
    /\ ing.tasks[d] = "none"
    /\ d \notin DOMAIN documents
    /\ documents' = (d :> [UploadedDocument(d) EXCEPT !.user_id = u]) @@ documents
    /\ ing' = [ing EXCEPT !.tasks[d] = u]
    /\ UNCHANGED <<index, reranker, pc, q, user_stats, sessions, messages, txn, sm, ncalls,
                   upserted, db_now, ret, chunks, doc_stats, ttl>>

\* process_document_background(document_id, ..., user_id): the task upload
\* scheduled starts, once, in a database session of its own, whether or not
\* the Document row is still there
ProcessDocumentBackground(d) ==
    /\ ing.pc \in {"idle", "done"}
    /\ ing.run < MaxRuns
    /\ ing.tasks[d] # "none"
    /\ ing.runs[d] = 0
    /\ ing' = [IdleIngest EXCEPT !.pc = "extract", !.document_id = d,
                                 !.user_id = ing.tasks[d],
                                 !.run = ing.run + 1,
                                 !.started = IF d \in DOMAIN documents
                                             THEN documents[d].status ELSE "none",
                                 !.runs = [ing.runs EXCEPT ![d] = @ + 1],
                                 !.returned = ing.returned,
                                 !.nchunks = ing.nchunks,
                                 !.tasks = ing.tasks]
    /\ UNCHANGED <<index, reranker, pc, q, user_stats, sessions, messages, txn, sm, ncalls,
                   upserted, db_now, ret, documents, chunks, doc_stats, ttl>>

\* delete_document(document_id) by tenant u, who owns the document: the
\* vector records with the tenant's user_id and the document_id are deleted
\* from the index, then the chunk rows and the Document row are deleted,
\* the counters are decremented (not below 0) and all is committed, then
\* the file is removed (when the index delete raises, db.rollback() leaves
\* everything as it was and the handler answers 500: no step)
DeleteDocument(d, u) ==
    /\ d \in DOMAIN documents
    /\ documents[d].user_id = u
    /\ index' = {r \in index : ~(r.metadata.user_id = u /\ r.metadata.document_id = d)}
    /\ chunks' = {c \in chunks : c.document_id # d}
    /\ doc_stats' = [doc_stats EXCEPT
            ![u].total_documents = IF @ - 1 > 0 THEN @ - 1 ELSE 0,
            ![u].storage_used = IF @ - documents[d].file_size > 0
                                THEN @ - documents[d].file_size ELSE 0]
    /\ documents' = [x \in DOMAIN documents \ {d} |-> documents[x]]
    /\ UNCHANGED <<reranker, pc, q, user_stats, sessions, messages, txn, sm, ncalls,
                   upserted, db_now, ret, ing, ttl>>

\* TextExtractor.extract_text raises, or returns a text that has fewer than
\* 10 characters after trimming, or a longer one; it reads the file, which
\* delete_document has removed when the Document row is gone
ExtractText ==
    /\ ing.pc = "extract"
    /\ \/ \E len \in FailureLens : ing' = Raise(Failure("extraction", len))
       \/ /\ ing.document_id \in DOMAIN documents
          /\ \E t \in {"short", "text"} : ing' = [ing EXCEPT !.pc = "length", !.text = t]
    /\ UNCHANGED <<index, reranker, pc, q, user_stats, sessions, messages, txn, sm, ncalls,
                   upserted, db_now, ret, documents, chunks, doc_stats, ttl>>

\* if not text or len(text.strip()) < 10: raise Exception("No text content
\* extracted from document"), a text of 39 characters
LengthCheck ==
    /\ ing.pc = "length"
    /\ ing' = IF ing.text = "short" THEN Raise(Failure("length", 39))
              ELSE [ing EXCEPT !.pc = "split"]
    /\ UNCHANGED <<index, reranker, pc, q, user_stats, sessions, messages, txn, sm, ncalls,
                   upserted, db_now, ret, documents, chunks, doc_stats, ttl>>

\* how many chunks split_text may cut the file of document d into: none, a
\* few, or enough for MaxBatches batches of upsert_chunks
ChunkCounts(d) == {0, Len(DocEmbeddings[d]), (MaxBatches - 1) * batch_size + 1}

\* text_splitter.split_text: the same file gives the same chunks in every
\* run (ing.nchunks[d] = -1: the file was not split yet)
SplitText ==
    /\ ing.pc = "split"
    /\ \/ \E len \in FailureLens : ing' = Raise(Failure("segmentation", len))
       \/ \E n \in ChunkCounts(ing.document_id) :
            /\ ing.nchunks[ing.document_id] \in {-1, n}
            /\ ing' = [ing EXCEPT !.pc = "embed", !.nchunks[ing.document_id] = n]
    /\ UNCHANGED <<index, reranker, pc, q, user_stats, sessions, messages, txn, sm, ncalls,
                   upserted, db_now, ret, documents, chunks, doc_stats, ttl>>

\* embedding_service.create_embeddings_batch
CreateEmbeddings ==
    /\ ing.pc = "embed"
    /\ \/ \E len \in FailureLens : ing' = Raise(Failure("embedding", len))
       \/ ing' = [ing EXCEPT !.pc = "prepare"]
    /\ UNCHANGED <<index, reranker, pc, q, user_stats, sessions, messages, txn, sm, ncalls,
                   upserted, db_now, ret, documents, chunks, doc_stats, ttl>>

\* document = db.query(Document)...first(), then the loop that builds
\* chunks_data and adds one DocumentChunk per chunk; the loop reads
\* document.filename, an AttributeError (a text of 49 characters) when the
\* row was not found
PrepareChunks ==
    /\ ing.pc = "prepare"
    /\ ing' = IF ing.document_id \notin DOMAIN documents /\ ing.nchunks[ing.document_id] > 0
              THEN Raise(Failure("prepare", 49))
              ELSE [ing EXCEPT !.pc = "upsert",
                               !.found = ing.document_id \in DOMAIN documents,
                               !.pending = ChunkRows(ing.user_id, ing.document_id, ing.run,
                                                     ing.nchunks[ing.document_id])]
    /\ UNCHANGED <<index, reranker, pc, q, user_stats, sessions, messages, txn, sm, ncalls,
                   upserted, db_now, ret, documents, chunks, doc_stats, ttl>>

\* pinecone_service.upsert_chunks(user_id, chunks_data); batch failAt
\* raises (0: none does)
UpsertDocument(failAt) ==
    /\ ing.pc = "upsert"
    /\ failAt <= NumBatches(ing.nchunks[ing.document_id])
    /\ index' = upsert_chunks(index, ing.user_id,
                              SplitChunksData(ing.document_id,
                                              ing.nchunks[ing.document_id]), failAt)
    /\ IF failAt = 0
       THEN ing' = [ing EXCEPT !.pc = "complete"]
       ELSE \E len \in FailureLens :
               ing' = [Raise(Failure("upsert", len)) EXCEPT !.failed_batch = failAt]
    /\ UNCHANGED <<reranker, pc, q, user_stats, sessions, messages, txn, sm, ncalls,
                   upserted, db_now, ret, documents, chunks, doc_stats, ttl>>

\* the status and the counters are set and db.commit() makes them and the
\* pending chunk rows durable
CompleteDocument ==
    /\ ing.pc = "complete"
    /\ ing.found
    /\ ing.document_id \in DOMAIN documents
    /\ documents' = [documents EXCEPT
            ![ing.document_id].status = "completed",
            ![ing.document_id].chunk_count = ing.nchunks[ing.document_id]]
    /\ chunks' = chunks \cup ing.pending
    /\ doc_stats' = [doc_stats EXCEPT
            ![ing.user_id].total_documents = @ + 1,
            ![ing.user_id].storage_used = @ + documents[ing.document_id].file_size]
    /\ ing' = [ing EXCEPT !.pc = "done", !.outcome = "returned", !.pending = {},
                          !.returned = [@ EXCEPT ![ing.document_id] = @ + 1]]
    /\ UNCHANGED <<index, reranker, pc, q, user_stats, sessions, messages, txn, sm, ncalls,
                   upserted, db_now, ret, ttl>>

\* db.commit() raises: its flush failed (as it does when the Document row
\* was deleted after it was read: the UPDATE matches no row), the
\* transaction is rolled back and the session refuses further use until
\* Session.rollback() is called; when the row was never found,
\* document.status = ... raises an AttributeError (48 characters) instead
CommitFails ==
    /\ ing.pc = "complete"
    /\ IF ing.found
       THEN \E len \in FailureLens :
               ing' = [Raise(Failure("commit", len)) EXCEPT !.session = "inactive",
                                                            !.pending = {}]
       ELSE ing' = Raise(Failure("status", 48))
    /\ UNCHANGED <<index, reranker, pc, q, user_stats, sessions, messages, txn, sm, ncalls,
                   upserted, db_now, ret, documents, chunks, doc_stats, ttl>>

\* except Exception as e: the document is read again in the same session,
\* marked failed with str(e)[:500] and committed, and e is raised again; on
\* an inactive session the read itself raises and nothing is written
HandleFailure ==
    /\ ing.pc = "except"
    /\ IF ing.session = "active" /\ ing.document_id \in DOMAIN documents
       THEN /\ documents' = [documents EXCEPT
                   ![ing.document_id].status = "failed",
                   ![ing.document_id].error_message = Truncated(ing.error, 500)]
            /\ chunks' = chunks \cup ing.pending
       ELSE UNCHANGED <<documents, chunks>>
    /\ ing' = [ing EXCEPT !.pc = "done", !.outcome = "raised", !.pending = {}]
    /\ UNCHANGED <<index, reranker, pc, q, user_stats, sessions, messages, txn, sm, ncalls,
                   upserted, db_now, ret, doc_stats, ttl>>

(***************************************************************************)
(* SpecRetrieval: ingestion and direct calls of query.                     *)
(***************************************************************************)
Init ==
    /\ index = {}
    /\ reranker = FALSE
    /\ pc = [p \in Procs |-> "idle"]
    /\ q = [p \in Procs |-> IdleQuery]
    /\ user_stats = [t \in Tenants |-> 0]
    /\ sessions = <<>>
    /\ messages = {}
    /\ txn = [p \in Procs |-> EmptyTxn]
    /\ sm = [p \in Procs |-> IdleSend]
    /\ ncalls = 0
    /\ upserted = NoUpsert
    /\ db_now = 0
    /\ ret = NoCall
    /\ documents = NoDocuments
    /\ doc_stats = NoDocStats
    /\ chunks = {}
    /\ ing = IdleIngest
    /\ ttl = IdleTitle

QueryStep(p) ==
    \/ QueryEmbed(p)
    \/ QuerySearch(p)
    \/ QueryRerank(p)
    \/ QueryTruncate(p)
    \/ QueryContext(p)
    \/ QueryAnswer(p)
    \/ QueryStats(p)

NextRetrieval ==
    \/ \E d \in Docs :
         \E failAt \in 0..NumBatches(Len(DocEmbeddings[d])) : IngestChunks(d, failAt)
    \/ LoadReranker
    \/ \E p \in Serial, u \in Tenants, ds \in SUBSET Docs, k \in TopKs, rr \in BOOLEAN,
          db \in BOOLEAN : QueryCall(p, u, ds, k, rr, db)
    \/ \E p \in Serial : QueryStep(p)

SpecRetrieval == Init /\ [][NextRetrieval]_vars

(***************************************************************************)
(* SpecUpsert: upsert_chunks on its own, over all its arguments.           *)
(***************************************************************************)
NextUpsert ==
    \E u \in Tenants, d \in Docs, stale \in StaleUserIds :
      \E failAt \in 0..NumBatches(Len(DocEmbeddings[d])) : UpsertChunks(u, d, stale, failAt)

SpecUpsert == Init /\ [][NextUpsert]_vars


(***************************************************************************)
(* SpecChat: send_message requests, one at a time, over an index that      *)
(* holds every document.                                                   *)
(***************************************************************************)
RECURSIVE Ingested(_)
Ingested(ds) ==
    IF ds = {} THEN {}
    ELSE LET d == CHOOSE x \in ds : TRUE
         IN upsert_chunks(Ingested(ds \ {d}), DocOwner[d], ChunksData(d, "absent"), 0)

InitChat ==
    /\ index = Ingested(Docs)
    /\ reranker \in BOOLEAN
    /\ pc = [p \in Procs |-> "idle"]
    /\ q = [p \in Procs |-> IdleQuery]
    /\ user_stats = [t \in Tenants |-> 0]
    /\ sessions = <<>>
    /\ messages = {}
    /\ txn = [p \in Procs |-> EmptyTxn]
    /\ sm = [p \in Procs |-> IdleSend]
    /\ ncalls = 0
    /\ upserted = NoUpsert
    /\ db_now = 0
    /\ ret = NoCall
    /\ documents = NoDocuments
    /\ doc_stats = NoDocStats
    /\ chunks = {}
    /\ ing = IdleIngest
    /\ ttl = IdleTitle

NextChat ==
    \/ \E p \in Serial, u \in Tenants, sid \in SessionIdArgs, rr \in BOOLEAN,
          ds \in ChatDocumentIds : SendMessage(p, u, sid, rr, ds)
    \/ \E p \in Serial : SendUserMessage(p)
    \/ \E p \in Serial : QueryStep(p)
    \/ \E p \in Serial : SendAssistantMessage(p)
    \/ \E p \in Serial : SendCommit(p)

SpecChat == InitChat /\ [][NextChat]_vars

(***************************************************************************)
(* SpecTitle: send_message and update_title requests of one tenant, one at *)
(* a time, while the database server's clock runs.                         *)
(***************************************************************************)
InitTitle ==
    /\ index = Ingested(Docs)
    /\ reranker = TRUE
    /\ pc = [p \in Procs |-> "idle"]
    /\ q = [p \in Procs |-> IdleQuery]
    /\ user_stats = [t \in Tenants |-> 0]
    /\ sessions = <<>>
    /\ messages = {}
    /\ txn = [p \in Procs |-> EmptyTxn]
    /\ sm = [p \in Procs |-> IdleSend]
    /\ ncalls = 0
    /\ upserted = NoUpsert
    /\ db_now = 0
    /\ ret = NoCall
    /\ documents = NoDocuments
    /\ doc_stats = NoDocStats
    /\ chunks = {}
    /\ ing = IdleIngest
    /\ ttl = IdleTitle

NextTitle ==
    \/ \E p \in Serial, sid \in {None, "s1"}, rr \in BOOLEAN : SendMessage(p, "A", sid, rr, {})
    \/ \E p \in Serial : SendUserMessage(p)
    \/ \E p \in Serial : QueryStep(p)
    \/ \E p \in Serial : SendAssistantMessage(p)
    \/ \E p \in Serial : SendCommit(p)
    \/ \E u \in Tenants, sid \in {"s1"}, title \in TitleArgs : UpdateTitle(u, sid, title)
    \/ DbTick

SpecTitle == InitTitle /\ [][NextTitle]_vars

(***************************************************************************)
(* SpecSessions: get_sessions, get_messages and delete_session over the    *)
(* stores that send_message leaves behind.                                 *)
(***************************************************************************)
\* what a session holds after up to two requests of its owner: nothing, a
\* user message whose request failed after the stats commit, one exchange,
\* or one exchange and such a user message
StoredHistories(session_id, user_id) ==
    {{}}
    \cup {{Message(1, session_id, user_id, "user", t)} : t \in Clock}
    \cup UNION {{ {Message(1, session_id, user_id, "user", t),
                   Message(1, session_id, user_id, "assistant", AssistantTime(t, r))} \cup later :
                  later \in {{}} \cup {{Message(2, session_id, user_id, "user", t2)} :
                                         t2 \in Clock} } :
                t \in Clock, r \in Clock}

\* the ChatSession row of a session that holds the messages msgs
StoredSession(user_id, msgs, at) ==
    LET count == 2 * Cardinality({m \in msgs : m.role = "assistant"})
    IN [user_id |-> user_id,
        title |-> IF count >= 2 THEN GeneratedTitle ELSE "New Chat",
        message_count |-> count,
        updated_at |-> at]

InitSessions ==
    /\ index = {}
    /\ reranker = FALSE
    /\ pc = [p \in Procs |-> "idle"]
    /\ q = [p \in Procs |-> IdleQuery]
    /\ user_stats = [t \in Tenants |-> 0]
    /\ \E owner3 \in Tenants, at \in [SessionIds -> Clock],
          h1 \in StoredHistories("s1", "A") :
         LET h3 == {Message(3, "s3", owner3, "user", 0),
                    Message(3, "s3", owner3, "assistant", 1)}
         IN /\ sessions = [s \in SessionIds |->
                             CASE s = "s1" -> StoredSession("A", h1, at[s])
                               [] s = "s2" -> StoredSession("A", {}, at[s])
                               [] OTHER -> StoredSession(owner3, h3, at[s])]
            /\ messages = h1 \cup h3
    /\ txn = [p \in Procs |-> EmptyTxn]
    /\ sm = [p \in Procs |-> IdleSend]
    /\ ncalls = 0
    /\ upserted = NoUpsert
    /\ db_now = 0
    /\ ret = NoCall
    /\ documents = NoDocuments
    /\ doc_stats = NoDocStats
    /\ chunks = {}
    /\ ing = IdleIngest
    /\ ttl = IdleTitle

NextSessions ==
    \/ \E u \in Tenants, limit \in Limits, cursor \in CursorArgs : GetSessions(u, limit, cursor)
    \/ GetSessionsNext
    \/ \E u \in Tenants, sid \in SessionIds, limit \in Limits, cursor \in CursorArgs :
         GetMessages(u, sid, limit, cursor)
    \/ GetMessagesNext
    \/ \E u \in Tenants, sid \in SessionIds : DeleteSession(u, sid)
    \/ Respond

SpecSessions == InitSessions /\ [][NextSessions]_vars

(***************************************************************************)
(* SpecTitleText: generate_title and _extract_title_fallback over their    *)
(* arguments and over what the title provider does.                        *)
(***************************************************************************)
InitTitleText ==
    /\ index = {}
    /\ reranker = FALSE
    /\ pc = [p \in Procs |-> "idle"]
    /\ q = [p \in Procs |-> IdleQuery]
    /\ user_stats = [t \in Tenants |-> 0]
    /\ sessions = <<>>
    /\ messages = {}
    /\ txn = [p \in Procs |-> EmptyTxn]
    /\ sm = [p \in Procs |-> IdleSend]
    /\ ncalls = 0
    /\ upserted = NoUpsert
    /\ db_now = 0
    /\ ret = NoCall
    /\ documents = NoDocuments
    /\ doc_stats = NoDocStats
    /\ chunks = {}
    /\ ing = IdleIngest
    /\ ttl = IdleTitle

\* one call in a behaviour
NextTitleText ==
    /\ ttl = IdleTitle
    /\ \/ \E m \in Messages, g \in Providers : GenerateTitle(m, g)
       \/ \E m \in Messages : ExtractTitleFallback(m)

SpecTitleText == InitTitleText /\ [][NextTitleText]_vars

(***************************************************************************)
(* SpecIngest: runs of process_document, one after the other, on the       *)
(* documents upload has stored.                                            *)
(***************************************************************************)
InitIngest ==
    /\ index = {}
    /\ reranker = FALSE
    /\ pc = [p \in Procs |-> "idle"]
    /\ q = [p \in Procs |-> IdleQuery]
    /\ user_stats = [t \in Tenants |-> 0]
    /\ sessions = <<>>
    /\ messages = {}
    /\ txn = [p \in Procs |-> EmptyTxn]
    /\ sm = [p \in Procs |-> IdleSend]
    /\ ncalls = 0
    /\ upserted = NoUpsert
    /\ db_now = 0
    /\ ret = NoCall
    /\ documents = [d \in Docs |-> UploadedDocument(d)]
    /\ chunks = {}
    /\ doc_stats = NoDocStats
    /\ ing = IdleIngest
    /\ ttl = IdleTitle

NextIngest ==
    \/ \E d \in Docs : ProcessDocument(d)
    \/ ExtractText
    \/ LengthCheck
    \/ SplitText
    \/ CreateEmbeddings
    \/ PrepareChunks
    \/ \E failAt \in 0..MaxBatches : UpsertDocument(failAt)
    \/ CompleteDocument
    \/ CommitFails
    \/ HandleFailure

SpecIngest == InitIngest /\ [][NextIngest]_vars

(***************************************************************************)
(* SpecConcurrent: two send_message requests of one tenant on one stored   *)
(* session, each in a database session of its own, their steps             *)
(* interleaved.  A request reads the committed rows and its commit writes  *)
(* its own.                                                                *)
(***************************************************************************)
InitConcurrent ==
    /\ index = Ingested(Docs)
    /\ reranker = FALSE
    /\ pc = [p \in Procs |-> "idle"]
    /\ q = [p \in Procs |-> IdleQuery]
    /\ user_stats = [t \in Tenants |-> 0]
    /\ \E exchanges \in 0..1 :
          /\ sessions = [s \in {"s1"} |->
                            [user_id |-> "A",
                             title |-> IF exchanges = 0 THEN "New Chat" ELSE GeneratedTitle,
                             message_count |-> 2 * exchanges, updated_at |-> 0]]
          /\ messages = IF exchanges = 0 THEN {}
                        ELSE {Message(0, "s1", "A", "user", 0),
                              Message(0, "s1", "A", "assistant", 1)}
    /\ txn = [p \in Procs |-> EmptyTxn]
    /\ sm = [p \in Procs |-> IdleSend]
    /\ ncalls = 0
    /\ upserted = NoUpsert
    /\ db_now = 0
    /\ ret = NoCall
    /\ documents = NoDocuments
    /\ doc_stats = NoDocStats
    /\ chunks = {}
    /\ ing = IdleIngest
    /\ ttl = IdleTitle

NextConcurrent ==
    \/ \E p \in Procs : SendMessage(p, "A", "s1", FALSE, {})
    \/ \E p \in Procs : SendUserMessage(p)
    \* the steps of query without QueryRerank: no reranker is loaded
    \/ \E p \in Procs : QueryEmbed(p)
    \/ \E p \in Procs : QuerySearch(p)
    \/ \E p \in Procs : QueryTruncate(p)
    \/ \E p \in Procs : QueryContext(p)
    \/ \E p \in Procs : QueryAnswer(p)
    \/ \E p \in Procs : QueryStats(p)
    \/ \E p \in Procs : SendAssistantMessage(p)
    \/ \E p \in Procs : SendCommit(p)

SpecConcurrent == InitConcurrent /\ [][NextConcurrent]_vars

(***************************************************************************)
(* SpecDocuments: upload_document, the background ingestion it schedules   *)
(* (one task at a time, its steps interleaved with the other handlers) and *)
(* delete_document.                                                        *)
(***************************************************************************)
InitDocuments ==
    /\ index = {}
    /\ reranker = FALSE
    /\ pc = [p \in Procs |-> "idle"]
    /\ q = [p \in Procs |-> IdleQuery]
    /\ user_stats = [t \in Tenants |-> 0]
    /\ sessions = <<>>
    /\ messages = {}
    /\ txn = [p \in Procs |-> EmptyTxn]
    /\ sm = [p \in Procs |-> IdleSend]
    /\ ncalls = 0
    /\ upserted = NoUpsert
    /\ db_now = 0
    /\ ret = NoCall
    /\ documents = NoDocuments
    /\ chunks = {}
    /\ doc_stats = NoDocStats
    /\ ing = IdleIngest
    /\ ttl = IdleTitle

NextDocuments ==
    \/ \E d \in Docs, u \in Tenants : UploadDocument(d, u)
    \/ \E d \in Docs : ProcessDocumentBackground(d)
    \/ ExtractText
    \/ LengthCheck
    \/ SplitText
    \/ CreateEmbeddings
    \/ PrepareChunks
    \/ \E failAt \in 0..MaxBatches : UpsertDocument(failAt)
    \/ CompleteDocument
    \/ CommitFails
    \/ HandleFailure
    \/ \E d \in Docs, u \in Tenants : DeleteDocument(d, u)

SpecDocuments == InitDocuments /\ [][NextDocuments]_vars

(***************************************************************************)
(* Claims.                                                                 *)
(***************************************************************************)
QueryReturned(p) == q[p].outcome = "returned"

\* C1: a query issued under a tenant returns only that tenant's records:
\* every match the index hands to query (and every match query keeps)
\* carries metadata user_id equal to the caller's user_id, and every source
\* of the result is a chunk of a document the caller owns, whatever the
\* similarity scores and whatever document_ids filter is passed.
C1_TenantIsolation ==
    \A p \in Procs :
        /\ \A i \in 1..Len(q[p].found) : q[p].found[i].metadata.user_id = q[p].user_id
        /\ \A i \in 1..Len(q[p].matches) : q[p].matches[i].metadata.user_id = q[p].user_id
        /\ \A i \in 1..Len(q[p].response.sources) :
              DocOwner[q[p].response.sources[i].document_id] = q[p].user_id

\* C1 witness: tenant A's query names B's document in document_ids, B's
\* record is in the index and is more similar to the query than a source A
\* got back
C1_Witness ==
    \E p \in Procs :
        /\ QueryReturned(p)
        /\ q[p].user_id = "A"
        /\ "d2" \in q[p].document_ids
        /\ \E i \in 1..Len(q[p].response.sources), r \in index :
              /\ r.metadata.user_id = "B"
              /\ Similarity(q[p].query_embedding, r.values) > q[p].response.sources[i].score

\* C2: every record in the index carries metadata user_id equal to the
\* user_id argument of the upsert_chunks call that wrote it (the first part
\* of its id), also when the chunk's own metadata held another user_id.
C2_RecordsCarryOwner ==
    \A r \in index : r.metadata.user_id = r.id[1]

\* C2 witness: the last call passed chunk metadata whose user_id key names
\* another tenant, and its records are in the index
C2_Witness ==
    /\ upserted.stale \in Tenants
    /\ upserted.stale # upserted.user_id
    /\ upserted.failAt = 0
    /\ \E r \in index : r.id[1] = upserted.user_id /\ r.id[2] = upserted.document_id

\* the stored messages of session s
SessionMessages(s) == {m \in messages : m.session_id = s}

\* message m1 belongs before m2 in the conversation: an earlier request, or
\* the user message of the request whose assistant message m2 is
ExchangeBefore(m1, m2) ==
    \/ m1.message_id[1] < m2.message_id[1]
    \/ /\ m1.message_id[1] = m2.message_id[1]
       /\ m1.role = "user" /\ m2.role = "assistant"

\* C3: any two distinct messages of one session have different created_at
\* values, and created_at orders them as the exchanges were made (user,
\* assistant, user, assistant, ...), whatever the clock readings.
C3_TotalOrderNoTies ==
    \A s \in DOMAIN sessions :
        \A m1, m2 \in SessionMessages(s) :
            /\ m1 # m2 => m1.created_at # m2.created_at
            /\ ExchangeBefore(m1, m2) => m1.created_at < m2.created_at

\* the rows request p has stored or is about to store
RowsOf(p) == {m \in messages \cup txn[p].msgs : m.message_id[1] = sm[p].call}

\* C4: within one send_message call the assistant message's created_at is
\* strictly greater than the user message's; when the second clock reading
\* is not later than the first, it is exactly the user timestamp plus one
\* microsecond.
C4_AssistantAfterUser ==
    \A p \in Procs :
        sm[p].assistant_message = "added" =>
            /\ sm[p].assistant_message_time > sm[p].user_message_time
            /\ sm[p].reading <= sm[p].user_message_time
                  => sm[p].assistant_message_time = sm[p].user_message_time + 1
            /\ sm[p].reading > sm[p].user_message_time
                  => sm[p].assistant_message_time = sm[p].reading
            /\ \A u, a \in RowsOf(p) :
                  u.role = "user" /\ a.role = "assistant"
                      => /\ u.created_at = sm[p].user_message_time
                         /\ a.created_at = sm[p].assistant_message_time
                         /\ a.created_at > u.created_at

\* C4 witness: a completed call whose second reading was earlier than its
\* first, with both messages stored
C4_Witness ==
    \E p \in Procs :
        /\ sm[p].outcome = "ok"
        /\ sm[p].reading < sm[p].user_message_time
        /\ \E u, a \in SessionMessages(sm[p].session) :
              /\ u.message_id = <<sm[p].call, "user">>
              /\ a.message_id = <<sm[p].call, "assistant">>
              /\ a.created_at = u.created_at + 1

\* C5: between send_message calls run one at a time, each completed or
\* failed at any step, every session's message_count is even and equals the
\* number of its stored messages, which are complete user+assistant pairs.
C5_CountMatchesPairs ==
    (\A p \in Procs : pc[p] = "idle") =>
        \A s \in DOMAIN sessions :
            /\ sessions[s].message_count % 2 = 0
            /\ sessions[s].message_count = Cardinality(SessionMessages(s))
            /\ \A m \in SessionMessages(s) :
                  \E n \in SessionMessages(s) :
                      /\ n.message_id[1] = m.message_id[1]
                      /\ n.role # m.role

\* the session the request names is not one of its tenant's
NotOwnSession(session_id, user_id) ==
    \/ session_id \notin DOMAIN sessions
    \/ sessions[session_id].user_id # user_id

\* C6: a send_message call with a non-empty session_id that does not exist,
\* or that belongs to another tenant, raises before anything is done: no
\* session is created or changed, no message is stored or pending, the
\* tenant's stats are untouched and query is not invoked.
C6_ForeignSessionRejected ==
    [][\A p \in Procs :
          (/\ ncalls' = ncalls + 1
           /\ sm'[p].call = ncalls'
           /\ Truthy(sm'[p].session_id)
           /\ NotOwnSession(sm'[p].session_id, sm'[p].user_id))
          => /\ sm'[p].outcome = "ValueError"
             /\ sm'[p].session = "none"
             /\ pc'[p] = "idle"
             /\ q'[p].caller = "none"
             /\ UNCHANGED <<sessions, messages, txn, user_stats, index>>]_vars

\* C6 witness: a call was rejected for naming another tenant's session, one
\* that holds a stored exchange
C6_Witness ==
    \E p \in Procs :
        /\ sm[p].outcome = "ValueError"
        /\ sm[p].session_id \in DOMAIN sessions
        /\ sessions[sm[p].session_id].user_id # sm[p].user_id
        /\ sessions[sm[p].session_id].message_count = 2
        /\ Cardinality(SessionMessages(sm[p].session_id)) = 2

\* the index answered the query of p (neither the embedding nor the index
\* query failed)
IndexAnswered(p) == QueryReturned(p) /\ q[p].failed \cap {"embedding", "index"} = {}

\* C7: when the index returns zero matches, query returns the fixed
\* no-information answer with sources = [], confidence = 0.0 and
\* reranked = false, and calls neither the reranker nor the synthesizer,
\* for every top_k and use_reranking.
C7_ZeroMatches ==
    \A p \in Procs :
        IndexAnswered(p) /\ Len(q[p].found) = 0
            => /\ q[p].response = NoInformationResponse
               /\ q[p].rerank_calls = 0
               /\ q[p].llm_calls = 0

\* C7 witness: zero matches for a caller who asked for reranking of 5 with a
\* reranker loaded, while the index holds records
C7_Witness ==
    \E p \in Procs :
        /\ IndexAnswered(p)
        /\ Len(q[p].found) = 0
        /\ q[p].use_reranking /\ reranker /\ q[p].top_k = 5
        /\ q[p].requested_k = 20
        /\ index # {}
        /\ q[p].response.answer = NoInformationAnswer

\* the pcs inside query
QueryPcs == {"q_embed", "q_search", "q_rank", "q_context", "q_answer", "q_stats"}

\* C8: query never raises to its caller: once a call has left query's steps
\* it has returned a result dictionary, whichever of the embedding
\* provider, the index query, the reranker, the chunk-text lookup, the
\* synthesizer or the stats update failed.
C8_NeverRaises ==
    \A p \in Procs :
        /\ q[p].outcome # "raised"
        /\ q[p].caller # "none" /\ pc[p] \notin QueryPcs
              => /\ QueryReturned(p)
                 /\ q[p].response.answer # NoAnswer

\* C8 witness: a call in which the reranker, a chunk-text lookup, the
\* synthesizer and the stats update all failed has returned
C8_Witness ==
    \E p \in Procs :
        /\ QueryReturned(p)
        /\ {"reranker", "chunk_lookup", "llm", "stats"} \subseteq q[p].failed

\* the steps after candidate retrieval that C9 names
LateSteps == {"reranker", "chunk_lookup", "llm"}

\* C9 as stated: when reranking, chunk-text resolution or answer synthesis
\* fails, query returns an answer embedding the failure reason with
\* sources = [], confidence = 0.0 and reranked = false.
C9_AsStated ==
    \A p \in Procs :
        QueryReturned(p) /\ q[p].failed \cap LateSteps # {}
            => /\ q[p].response.answer.reason \in LateSteps
               /\ q[p].response.sources = <<>>
               /\ q[p].response.confidence = 0
               /\ q[p].response.reranked = FALSE

\* C9 as amended: a failure of reranking, of chunk-text resolution or of
\* answer synthesis is absorbed where it happens and the result keeps its
\* candidates: the sources are the kept candidates (at least one), the
\* confidence is their top-3 mean and reranked tells whether the reranking
\* branch ran; a failed reranking keeps matches[:top_k] in similarity order,
\* and only a failed synthesis changes the answer, which then embeds the
\* failure reason. The blank result (sources = [], confidence = 0.0,
\* reranked = false, answer embedding the reason) is returned exactly for a
\* failure that reaches query's own handler: the embedding or the index query.
C9_Amended ==
    \A p \in Procs :
        QueryReturned(p) =>
            /\ q[p].failed \cap LateSteps # {} =>
                  /\ Len(q[p].response.sources) >= 1
                  /\ q[p].response.sources =
                        [i \in 1..Len(q[p].matches) |-> Source(q[p].matches[i])]
                  /\ q[p].response.confidence = Confidence(q[p].matches)
                  /\ q[p].response.reranked = (q[p].rerank_calls > 0)
            /\ "reranker" \in q[p].failed => q[p].matches = Take(q[p].found, q[p].top_k)
            /\ "llm" \in q[p].failed <=> q[p].response.answer = GenerationErrorAnswer("llm")
            /\ q[p].failed \cap {"embedding", "index"} # {}
                  <=> \E step \in Steps : q[p].response = ErrorResponse(step)

\* C9 witness: a returned call whose synthesis failed after its reranking
\* and a chunk-text lookup failed, with sources in the result
C9_Witness ==
    \E p \in Procs :
        /\ QueryReturned(p)
        /\ LateSteps \subseteq q[p].failed
        /\ Len(q[p].response.sources) >= 2
        /\ q[p].response.confidence > 0

\* C10: when the index returns fewer than 3 matches the reranker is never
\* invoked and the result has reranked = false, whatever use_reranking and
\* whether or not a reranker is loaded; the kept candidates are the first
\* top_k matches in the index's order.
C10_FewMatchesNoRerank ==
    \A p \in Procs :
        Len(q[p].found) < 3 /\ pc[p] \notin {"q_embed", "q_search", "q_rank"}
            => /\ q[p].rerank_calls = 0
               /\ ~q[p].reranked
               /\ q[p].matches = Take(q[p].found, q[p].top_k)
               /\ QueryReturned(p) => ~q[p].response.reranked

\* C10 witness: two matches, reranking requested, a reranker loaded, top_k 1
C10_Witness ==
    \E p \in Procs :
        /\ IndexAnswered(p)
        /\ Len(q[p].found) = 2
        /\ q[p].use_reranking /\ reranker /\ q[p].top_k = 1
        /\ Len(q[p].response.sources) = 1

\* the call of p has passed the index query
Searched(p) ==
    /\ q[p].caller # "none"
    /\ pc[p] \notin {"q_embed", "q_search"}
    /\ q[p].failed \cap {"embedding", "index"} = {}

\* C20: the number of candidates requested from the index is top_k whenever
\* reranking is not requested or no reranker is loaded, for every
\* top_k >= 1, and min(4 * top_k, 20) when reranking is requested and a
\* reranker is loaded.
C20_RequestedCandidates ==
    \A p \in Procs :
        Searched(p) =>
            q[p].requested_k = IF q[p].use_reranking /\ reranker
                               THEN Min(4 * q[p].top_k, 20)
                               ELSE q[p].top_k

\* the pages of the traversal in ret, one after the other
RECURSIVE Concat(_)
Concat(pages) ==
    IF pages = <<>> THEN <<>> ELSE pages[1].items \o Concat(Tail(pages))

\* the sessions of user_id
OwnSessions(user_id) == {s \in DOMAIN sessions : sessions[s].user_id = user_id}

\* the cursor call number i of the traversal in ret was made with
CursorOfCall(i) == IF i = 1 THEN ret.cursor ELSE ret.pages[i - 1].cursor

\* C11: for a tenant whose sessions have pairwise distinct updated_at and a
\* limit L >= 1, get_sessions called without a cursor and then with each
\* returned cursor yields pages in updated_at descending order, each of
\* exactly L sessions with has_more = true and a cursor except the last,
\* which has has_more = false and no cursor; no session is on two pages
\* and all the tenant's sessions appear.
C11_SessionPages ==
    (/\ ret.op = "get_sessions"
     /\ ret.cursor = NoCursor
     /\ \A s1, s2 \in OwnSessions(ret.user_id) :
           s1 # s2 => sessions[s1].updated_at # sessions[s2].updated_at)
    => LET n == Len(ret.pages)
           all == Concat(ret.pages)
           finished == ret.pages[n].cursor = NoCursor
       IN /\ \A i \in 1..n :
                 /\ ret.pages[i].has_more <=> ret.pages[i].cursor # NoCursor
                 /\ ret.pages[i].has_more => Len(ret.pages[i].items) = ret.limit
                 /\ Len(ret.pages[i].items) <= ret.limit
                 /\ i < n => ret.pages[i].has_more
          /\ \A i, j \in 1..Len(all) :
                 i < j => /\ all[i].id # all[j].id
                          /\ all[i].at > all[j].at
          /\ \A i \in 1..Len(all) :
                 /\ all[i].id \in OwnSessions(ret.user_id)
                 /\ all[i].at = sessions[all[i].id].updated_at
          /\ finished =>
                 /\ ~ret.pages[n].has_more
                 /\ {all[i].id : i \in 1..Len(all)} = OwnSessions(ret.user_id)

\* C11 witness: three sessions of one tenant, read to the end in three
\* pages of one
C11_Witness ==
    /\ ret.op = "get_sessions"
    /\ ret.cursor = NoCursor
    /\ ret.limit = 1
    /\ Len(ret.pages) = 3
    /\ ret.pages[3].cursor = NoCursor
    /\ Len(ret.pages[3].items) = 1
    /\ Cardinality(OwnSessions(ret.user_id)) = 3

\* the messages of session_id older than the cursor (all when there is none)
OlderThan(session_id, cursor) ==
    {m \in messages :
        /\ m.session_id = session_id
        /\ \A t \in 0..(MaxClock + 1) : cursor = IsoFormat(t) => m.created_at < t}

\* C12: get_messages on an owned session returns the (at most limit) newest
\* messages whose created_at is strictly less than the cursor (all messages
\* without a cursor), listed in ascending created_at order; has_more is
\* true exactly when more than limit messages satisfy the filter, and the
\* cursor returned is the created_at of the oldest message of the page when
\* has_more is true and null otherwise.
C12_MessagePage ==
    (ret.op = "get_messages" /\ ret.ok) =>
        \A k \in 1..Len(ret.pages) :
            CursorOfCall(k).kind \in {"None", "iso"} =>
                LET page == ret.pages[k]
                    items == page.items
                    older == OlderThan(ret.session_id, CursorOfCall(k))
                    listed == {items[i].id : i \in 1..Len(items)}
                IN /\ Len(items) = Min(ret.limit, Cardinality(older))
                   /\ Cardinality(listed) = Len(items)
                   /\ \A i \in 1..Len(items) :
                         \E m \in older : m.message_id = items[i].id
                                          /\ m.created_at = items[i].at
                   /\ \A i, j \in 1..Len(items) : i < j => items[i].at <= items[j].at
                   /\ \A m \in older :
                         m.message_id \notin listed => m.created_at <= items[1].at
                   /\ page.has_more <=> Cardinality(older) > ret.limit
                   /\ page.cursor = IF page.has_more THEN IsoFormat(items[1].at)
                                    ELSE NoCursor
                   /\ page.total = Cardinality(SessionMessages(ret.session_id))

\* C12 witness: a page of two out of three messages older than a given
\* cursor, in a session whose newest message is not older than it
C12_Witness ==
    /\ ret.op = "get_messages" /\ ret.ok
    /\ ret.cursor.kind = "iso"
    /\ ret.limit = 1
    /\ Len(ret.pages) = 1
    /\ ret.pages[1].has_more
    /\ Cardinality(OlderThan(ret.session_id, ret.cursor)) = 2
    /\ Cardinality(SessionMessages(ret.session_id)) = 3

\* C13: with a cursor text that is no ISO timestamp get_sessions and
\* get_messages return what they return without a cursor (the first page)
\* and raise no error.
C13_BadCursorFirstPage ==
    (Len(ret.pages) = 1 /\ ret.cursor.kind \in {"junk", "empty"}) =>
        /\ ret.op = "get_sessions" =>
              ret.pages[1] \in get_sessions(sessions, ret.user_id, ret.limit, NoCursor)
        /\ ret.op = "get_messages" =>
              ret.pages[1] \in get_messages(sessions, messages, ret.user_id,
                                            ret.session_id, ret.limit, NoCursor)

\* C13 witness: get_messages called with a text that is no timestamp has
\* returned a full first page of an owned session
C13_Witness ==
    /\ ret.op = "get_messages" /\ ret.ok
    /\ ret.cursor = JunkCursor
    /\ Len(ret.pages) = 1
    /\ Len(ret.pages[1].items) = 2
    /\ ret.pages[1].has_more

\* C14: delete_session(user, sid) removes the session and every message of
\* it exactly when the session exists and is owned by user (and returns
\* true); otherwise it returns false and no session and no message of any
\* tenant is changed.
C14_DeleteSession ==
    [][ret'.op = "delete_session" =>
          LET sid == ret'.session_id
              owned == sid \in DOMAIN sessions /\ sessions[sid].user_id = ret'.user_id
          IN /\ ret'.ok = owned
             /\ owned => /\ DOMAIN sessions' = DOMAIN sessions \ {sid}
                         /\ \A s \in DOMAIN sessions' : sessions'[s] = sessions[s]
                         /\ messages' = {m \in messages : m.session_id # sid}
             /\ ~owned => UNCHANGED <<sessions, messages>>]_vars

\* C14 witness: a session that held an exchange has been deleted with its
\* messages, and the messages of another session are still stored
C14_Witness ==
    /\ ret.op = "delete_session" /\ ret.ok
    /\ ret.session_id = "s3"
    /\ "s3" \notin DOMAIN sessions
    /\ SessionMessages("s1") # {}
    /\ \A m \in messages : m.session_id # "s3"

\* C17: title inference overwrites a session's title in exactly one
\* send_message call, the one whose commit takes message_count to 2; in
\* any sequence of send_message and update_title calls, once a session has
\* message_count >= 2 its title is changed only by update_title.
C17_TitleInferredOnce ==
    [][\A s \in DOMAIN sessions :
          /\ s \in DOMAIN sessions'
          /\ sessions'[s].message_count >= sessions[s].message_count
          /\ (sessions[s].message_count = 0 /\ sessions'[s].message_count = 2)
                => sessions'[s].title = GeneratedTitle
          /\ sessions'[s].title # sessions[s].title
                => \/ sessions[s].message_count = 0 /\ sessions'[s].message_count = 2
                   \/ /\ UNCHANGED <<sm, pc, messages, txn>>
                      /\ sessions'[s].message_count = sessions[s].message_count
                      /\ sessions'[s].title \in TitleArgs]_vars

\* C17 witness: a session titled by its first exchange, renamed by its
\* owner, has completed a second exchange and kept the owner's title
C17_Witness ==
    \E s \in DOMAIN sessions :
        /\ sessions[s].message_count = 4
        /\ sessions[s].title \in TitleArgs
        /\ Cardinality(SessionMessages(s)) = 4
        /\ \A p \in Procs : pc[p] = "idle"
        /\ \A p \in Serial : sm[p].outcome = "ok"

\* the cleaned form of the text the provider answered with
CleanedAnswer(groq) == clean_title(Strip(groq.content, Whitespace))

\* C18: generate_title never raises and always returns a title: when the
\* title provider is unavailable, raises, returns malformed output, or
\* returns a title whose cleaned form has fewer than 3 characters, the
\* result is exactly the fallback title of the message; otherwise it is the
\* cleaned provider title cut to at most 100 characters.
C18_TitleOrFallback ==
    ttl.op = "generate_title" =>
        /\ ~ttl.result.raised
        /\ IF ttl.groq.kind # "content" \/ Len(CleanedAnswer(ttl.groq)) < 3
           THEN ttl.result.title = extract_title_fallback(ttl.message)
           ELSE /\ ttl.result.title = Take(CleanedAnswer(ttl.groq), 100)
                /\ Len(ttl.result.title) <= 100

\* C18 witness: the provider answered with a text whose cleaned form has
\* one or two characters, and generate_title returned the fallback title
C18_Witness ==
    /\ ttl.op = "generate_title"
    /\ ttl.groq.kind = "content"
    /\ Len(CleanedAnswer(ttl.groq)) \in {1, 2}
    /\ ttl.result.title = extract_title_fallback(ttl.message)
    /\ ttl.result.title # CleanedAnswer(ttl.groq)
    /\ ttl.result.title # <<>>

\* the words of the clause before the first question mark that are not
\* interrogative or auxiliary words, in their order
ClauseWords(message) ==
    LET NotQuestionWord(w) == w \notin question_words
    IN  SelectSeq(Split(LowerStr(BeforeFirst(message, "?"))), NotQuestionWord)

\* C19: for every message with a question mark within its first 100
\* characters, the fallback title is non-empty and is the first 6 words of
\* the clause before the first question mark that are not interrogative or
\* auxiliary words, in their order, title-cased.
C19_QuestionTitle ==
    (ttl.op = "extract_title_fallback"
        /\ Contains(Take(ttl.message, 100), "?")) =>
        /\ ttl.result.title # <<>>
        /\ ttl.result.title = TitleCase(Join(Take(ClauseWords(ttl.message), 6)))

\* C15: every run of process_document on an existing document in status
\* processing ends with the document in a terminal status: completed when
\* no step raised, failed when a step (extraction, length check,
\* segmentation, embedding, vector upsert, relational commit) raised, with
\* error_message the first 500 characters of the failure text at most; the
\* status is never left as processing.
C15_TerminalStatus ==
    (ing.pc = "done" /\ ing.started = "processing") =>
        LET document == documents[ing.document_id]
        IN  /\ document.status # "processing"
            /\ IF ing.error = NoFailure
               THEN document.status = "completed"
               ELSE /\ document.status = "failed"
                    /\ document.error_message = Truncated(ing.error, 500)
                    /\ document.error_message.len <= 500

\* the chunk indexes of document d
ChunkIndexes(d) == 0..(ing.nchunks[d] - 1)

\* C16: after two runs of process_document on the same document (same
\* text), both of which returned, the index holds exactly one record per
\* chunk index of the document, under the id {tenant}_{document}_chunk_{i},
\* and the relational store holds two chunk rows per chunk index.
C16_TwiceIngested ==
    \A d \in Docs :
        (ing.pc = "done" /\ ing.runs[d] = 2 /\ ing.returned[d] = 2) =>
            /\ {r.id : r \in {x \in index : x.metadata.document_id = d}}
                   = {VectorId(DocOwner[d], d, i) : i \in ChunkIndexes(d)}
            /\ \A i \in ChunkIndexes(d) :
                   /\ Cardinality({r \in index :
                          r.id = VectorId(DocOwner[d], d, i)}) = 1
                   /\ Cardinality({c \in chunks :
                          c.document_id = d /\ c.chunk_index = i}) = 2
            /\ \A c \in chunks :
                   c.document_id = d => c.chunk_index \in ChunkIndexes(d)

\* C16 witness: document d1 was processed twice, both runs returned, and
\* two chunk rows with different chunk_id name the same vector record
C16_Witness ==
    /\ ing.pc = "done"
    /\ ing.runs["d1"] = 2
    /\ ing.returned["d1"] = 2
    /\ \E c1, c2 \in chunks :
           /\ c1.chunk_id # c2.chunk_id
           /\ c1.pinecone_id = c2.pinecone_id
           /\ \E r \in index : r.id = c1.pinecone_id

\* the reranker scored the pool of request p and query went on
RerankRan(p) ==
    /\ q[p].rerank_calls > 0
    /\ "reranker" \notin q[p].failed
    /\ pc[p] # "q_rank"

\* the place in the pool q[p].found of the i-th kept candidate
PoolPlace(p, i) ==
    CHOOSE n \in 1..Len(q[p].found) : q[p].found[n].id = q[p].matches[i].id

\* pool place a comes before pool place b in the reranked order: a higher
\* reranker score, or the same score and an earlier similarity rank
RankedBefore(p, a, b) ==
    \/ q[p].rerank_scores[a] > q[p].rerank_scores[b]
    \/ q[p].rerank_scores[a] = q[p].rerank_scores[b] /\ a < b

\* C21: when reranking runs, the kept candidates are the top_k of the pool
\* by reranker score, highest first, candidates of equal score in their
\* order of the similarity ranking; the sources and the context that query
\* returns follow this order.
C21_RerankOrder ==
    \A p \in Procs :
        RerankRan(p) =>
            LET n == Len(q[p].matches)
                kept == {PoolPlace(p, i) : i \in 1..n}
            IN  /\ n = Min(q[p].top_k, Len(q[p].found))
                /\ \A i \in 1..n :
                       \E k \in 1..Len(q[p].found) : q[p].found[k] = q[p].matches[i]
                /\ \A i, j \in 1..n :
                       i < j => RankedBefore(p, PoolPlace(p, i), PoolPlace(p, j))
                /\ \A i \in 1..n, k \in (1..Len(q[p].found)) \ kept :
                       RankedBefore(p, PoolPlace(p, i), k)
                /\ pc[p] # "q_context" =>
                       /\ q[p].sources = [i \in 1..n |-> Source(q[p].matches[i])]
                       /\ q[p].context = [i \in 1..n |-> q[p].matches[i].id]
                /\ (QueryReturned(p) /\ q[p].response.reranked) =>
                       q[p].response.sources = q[p].sources

\* C21 witness: query returned two of three candidates; the kept ones have
\* the same reranker score, stand in their similarity order, and the
\* candidate dropped was first in the similarity ranking
C21_Witness ==
    \E p \in Procs :
        /\ RerankRan(p)
        /\ QueryReturned(p)
        /\ q[p].response.reranked
        /\ Len(q[p].found) = 3
        /\ Len(q[p].response.sources) = 2
        /\ PoolPlace(p, 1) = 2
        /\ PoolPlace(p, 2) = 3
        /\ q[p].rerank_scores[2] = q[p].rerank_scores[3]

\* C27: whenever query returns reranked = true the returned sources are in
\* descending order of reranker score; when the reranker raises while
\* scoring, the candidates are kept in similarity order and the result
\* reports reranked = false.
C27_RerankedFlag ==
    \A p \in Procs :
        QueryReturned(p) =>
            /\ q[p].response.reranked =>
                   /\ Len(q[p].rerank_scores) = Len(q[p].found)
                   /\ \A i, j \in 1..Len(q[p].matches) :
                          i < j => q[p].rerank_scores[PoolPlace(p, i)]
                                       >= q[p].rerank_scores[PoolPlace(p, j)]
            /\ "reranker" \in q[p].failed =>
                   /\ q[p].matches = Take(q[p].found, q[p].top_k)
                   /\ ~q[p].response.reranked

\* the chunk indexes of the records of document d in the index
Indexed(d) == {r.metadata.chunk_index : r \in {x \in index : x.metadata.document_id = d}}

\* C22: when the upsert of batch k of a document's vector records raises
\* during ingestion, the records of batches 1..k-1 are in the index, no
\* record of batch k or of a later batch was sent (in the document's first
\* run the index holds nothing else of the document), and the run ends
\* with the document in status failed, never completed.
C22_BatchFailure ==
    (ing.pc \in {"except", "done"} /\ ing.error.step = "upsert") =>
        LET d == ing.document_id
            sent == (ing.failed_batch - 1) * batch_size
        IN  /\ ing.failed_batch \in 1..NumBatches(ing.nchunks[d])
            /\ 0..(sent - 1) \subseteq Indexed(d)
            /\ ing.runs[d] = 1 => Indexed(d) = 0..(sent - 1)
            /\ ing.pc = "done" =>
                   /\ documents[d].status = "failed"
                   /\ ing.outcome = "raised"
                   /\ ing.returned[d] < ing.runs[d]

\* C22 witness: the second of three batches failed in the first run of d1;
\* the first hundred records are in the index and the document is failed
C22_Witness ==
    /\ ing.pc = "done"
    /\ ing.error.step = "upsert"
    /\ ing.failed_batch = 2
    /\ ing.runs["d1"] = 1
    /\ ing.document_id = "d1"
    /\ NumBatches(ing.nchunks["d1"]) = 3
    /\ Cardinality(Indexed("d1")) = batch_size
    /\ documents["d1"].status = "failed"
\* C23: when split_text cuts an accepted text into zero chunks, the run
\* ends as a failure: the document is in status failed, not completed, and
\* the tenant's document count and storage counters were not incremented.
C23_ZeroChunksFail ==
    LET d == ing.document_id
    IN  (/\ ing.pc = "done"
         /\ ing.nchunks[d] = 0
         /\ ing.error.step \notin {"extraction", "length", "segmentation"}) =>
            /\ documents[d].status = "failed"
            /\ ing.outcome = "raised"
            /\ ing.run = 1 => doc_stats = NoDocStats
\* C25: a run of process_document that left its document in status failed
\* persisted none of the DocumentChunk rows it added to its session: the
\* failure handler's commit does not write them.
C25_NoChunkRowsOfFailedRun ==
    (/\ ing.pc = "done"
     /\ ing.outcome = "raised"
     /\ documents[ing.document_id].status = "failed") =>
        \A c \in chunks :
            ~(c.document_id = ing.document_id /\ c.chunk_id = ChunkId(ing.run, c.chunk_index))
\* the documents of tenant u in status completed
Completed(u) ==
    {d \in DOMAIN documents : documents[d].user_id = u /\ documents[d].status = "completed"}

\* the sum of the file sizes of the documents in ds
RECURSIVE TotalSize(_)
TotalSize(ds) ==
    IF ds = {} THEN 0
    ELSE LET d == CHOOSE x \in ds : TRUE
         IN  documents[d].file_size + TotalSize(ds \ {d})

\* C24: whenever no ingestion is running or waiting to run, after any sequence of uploads,
\* ingestions and deletions, each tenant's total_documents is the number of
\* its documents in status completed and its storage_used is the sum of
\* their file sizes.
C24_CountersMatchDocuments ==
    (/\ ing.pc \in {"idle", "done"}
     /\ \A d \in Docs : ing.tasks[d] # "none" => ing.runs[d] = 1) =>
        \A u \in Tenants :
            /\ doc_stats[u].total_documents = Cardinality(Completed(u))
            /\ doc_stats[u].storage_used = TotalSize(Completed(u))
\* C29: once delete_document has answered success for an uploaded document
\* and the background ingestion of that document has terminated, in
\* whatever order their steps ran, the index holds no record of the
\* document (so no query returns a source naming it).
C29_DeletedNotIndexed ==
    \A d \in Docs :
        (/\ ing.tasks[d] # "none"
         /\ d \notin DOMAIN documents
         /\ ing.runs[d] = 1
         /\ ing.document_id = d => ing.pc = "done") =>
            \A r \in index : r.metadata.document_id # d
\* the stored messages of the request that p served last, by role
StoredOfCall(p, role) == {x \in messages : x.message_id = <<sm[p].call, role>>}

\* C26: when the stats update inside query failed (its handler rolled back,
\* which left the flushed user message expunged) and send_message's own
\* commit went through, the exchange is stored whole: the user message and
\* the assistant message are both in the session, message_count is the
\* number of the session's messages, and the request succeeded.
C26_StatsFailureKeepsExchange ==
    \A p \in Procs :
        (/\ pc[p] = "idle"
         /\ sm[p].user_message = "expunged"
         /\ StoredOfCall(p, "assistant") # {}) =>
            /\ StoredOfCall(p, "user") # {}
            /\ sm[p].outcome = "ok"
            /\ sessions[sm[p].session].message_count =
                   Cardinality({x \in messages : x.session_id = sm[p].session})
\* both requests have been served and both commits of send_message went
\* through
BothCommitted ==
    /\ \A p \in Procs : pc[p] = "idle" /\ sm[p].call > 0 /\ sm[p].session = "s1"
    /\ \A p \in Procs : \E x \in messages : x.message_id = <<sm[p].call, "assistant">>

\* C28: when two send_message requests on the same session ran
\* concurrently and both committed, the session's message_count is the
\* number of its stored messages (no increment was lost) and the title was
\* inferred in at most one of the two requests.
C28_ConcurrentExchanges ==
    BothCommitted =>
        /\ sessions["s1"].message_count =
               Cardinality({x \in messages : x.session_id = "s1"})
        /\ ~(\A p \in Procs : sm[p].title_updated)
\* C30: when a client has followed the cursors of get_sessions from the
\* first page to a page with has_more = false, every session of the tenant
\* was on some page, whatever the updated_at values are, equal ones
\* included.
C30_EverySessionListed ==
    (/\ ret.op = "get_sessions"
     /\ ret.cursor = NoCursor
     /\ ~ret.pages[Len(ret.pages)].has_more) =>
        LET all == Concat(ret.pages)
        IN  OwnSessions(ret.user_id) \subseteq {all[i].id : i \in 1..Len(all)}
====
